---- MODULE Spec2Model ----
(***************************************************************************)
(* State-machine model of the video editor client API:                     *)
(*   - the sequential-compile handler  POST /single_api                    *)
(*   - the job-tracked compose handler POST /api/videos/compose            *)
(* One request is followed from its arrival to the end of its handler and  *)
(* beyond (timers and engine processes outlive the handler).  The route    *)
(* /single_api exists in two versions: the one behind the celebrate schema *)
(* (per-request scratch directory, timeouts, cleanup) and the earlier one  *)
(* (explicit checks, shared directory, no timeout, no cleanup).            *)
(***************************************************************************)
EXTENDS Integers, Sequences, FiniteSets, TLC

\* ------------------------------------------------------------- bounds
\* longest submitted segment collection
MaxSegs == 3
\* largest ordering key submitted
MaxId == 1
\* how many clock steps the model follows
MaxTicks == 3
\* how many concurrent /single_api requests are followed
NumRequests == 2
\* how many segments each of them submits at most
MaxScratchSegs == 2
\* how many steps one call of updateVideoCompositionProgress appends at most
MaxAppend == 1
\* how many intervals of the cleanup scheduler are followed
MaxSweeps == 6
\* longest timeline submitted to the compose route
MaxTimeline == 1
\* largest startTime of a timeline item
MaxStart == 1

\* -------------------------------------------------- program constants
\* setTimeout of the overlay promise
OverlayTimeoutMs == 60000
\* setTimeout of the concatenation promise
ConcatTimeoutMs == 120000

\* lifetime of a composed artifact: 60 * 60 * 1000
ExpirationMs == 3600000

\* CLEANUP_INTERVAL: 15 * 60 * 1000
CleanupIntervalMs == 900000

\* one clock step: the granularity both timeouts are multiples of
TickMs == OverlayTimeoutMs

\* the callers of initializeVideoCompositionTable that are followed: two
\* compose requests at their step 1 and the sweep
InitCallers == {"request_1", "request_2", "sweep"}

\* the concurrent callers of updateVideoCompositionProgress followed
Appenders == {"first", "second"}

SequentialType == "compile_sequential_video"
ReqTypes == {SequentialType, "other"}
SegTypes == {"video", "tts"}
\* the kinds clients submit: the two the handlers know, and one they do not
SubmittedTypes == SegTypes \cup {"image"}
Ids == 0..MaxId

\* The request bodies followed: up to MaxSegs entries, each with an ordering
\* key and a kind. Payloads are opaque to the handler (decoded and written,
\* never inspected), so the k-th submitted entry carries its own payload k:
\* a body that repeats a payload is the image of one of these under renaming.
Bodies ==
    UNION {{[i \in 1..k |-> [id |-> f[i].id, type |-> f[i].type, base_64 |-> i]] :
               f \in [1..k -> [id : Ids, type : SubmittedTypes]]} : k \in 0..MaxSegs}

\* error messages
MsgUnsupported == "Unsupported type"
MsgNoSegments == "No se generaron segmentos de audio para el procesamiento."
MsgDefaultMissing == "Default video not found"
MsgOverlayTimeout == "Timeout en la creacion del segmento"
MsgConcatTimeout == "Timeout durante la concatenacion de segmentos"
MsgEngine == "ffmpeg exited with code 1"
MsgFs == "EIO: i/o error"
MsgValidation == "celebrate request validation failed"
MsgEmptyData == "The data field must be a non-empty array"
MsgNoSegmentsLegacy == "No audio segments were generated for processing."

VARIABLES
    variant,          \* which version of the route serves the request
    reqType,          \* req.body.type as submitted
    reqData,          \* req.body.data as submitted
    data,             \* the handler's array (sorted in place)
    pc,               \* position of the handler
    uuidCount,        \* how many uuidv4() values were drawn
    processId,        \* the request's uuid (0: none yet)
    dirExists,        \* the scratch directory exists
    files,            \* scratch directory: path -> content
    currentVideoPath, \* the active video
    segmentFiles,     \* outputs of the overlays, in order
    segmentIndex,     \* counter naming segment_N.mp4
    cursor,           \* index of the next segment of the for-of loop
    procs,            \* engine invocations, in launch order
    timers,           \* armed setTimeout timers
    now,              \* wall clock, ms
    error,            \* the error thrown to the handler's catch
    responses,        \* HTTP responses sent for the request
    cleanupLog,       \* what cleanupTempDir logged: "none", "cleaned", "error"
    timeline,         \* compose: req.body.timeline as submitted
    clips,            \* compose: concatData.clips
    tableExists,      \* the table video_compositions exists
    rows,             \* the table: id -> row
    requestId,        \* compose: the job id (0: none yet)
    folders,          \* the job folders under data/composeVideo
    composed,         \* data/composedVideos: path -> content
    outputPath,       \* compose: what composeVideo resolved with
    scratchReqs,      \* concurrent /single_api requests: r -> its handler's locals
    scratchDirs,      \* the directories under data/temp_single_api that exist
    scratchFiles,     \* the files in them: path -> the requests that wrote it
    scratchUuids,     \* how many uuidv4() values were handed out
    sweep,            \* the cleanup scheduler: its position and the records it
                      \* selected
    appenders,        \* concurrent calls of updateVideoCompositionProgress on
                      \* one job: c -> its position, its steps, what it read
    jobs,             \* concurrent compose requests: job id -> the position of
                      \* its handler and the output path of its composeVideo
    runs,             \* the calls of cleanExpiredVideos that have not returned
    sched,            \* the scheduler: started, ticks fired, sweeps started,
                      \* and the last sweep that returned
    initers,          \* concurrent calls of initializeVideoCompositionTable:
                      \* caller -> its position, what hasTable told it, whether
                      \* its createTable went through, and its error
    command           \* the engine command composeVideo builds: its inputs,
                      \* its filter graph and the outputs it maps

\* the state of the sequential-compile handlers
seqVars == <<reqType, reqData, data, uuidCount, processId, dirExists, files,
             currentVideoPath, segmentFiles, segmentIndex, cursor, cleanupLog>>

\* the state of the compose handler and of the job store
composeVars == <<timeline, clips, tableExists, rows, requestId, folders,
                 composed, outputPath>>

\* the state of the concurrent requests followed for their scratch directories
scratchVars == <<scratchReqs, scratchDirs, scratchFiles, scratchUuids>>

\* the state of the scheduler run beside concurrent compose requests
schedVars == <<jobs, runs, sched>>

\* the state of the scenarios followed beside the one request
sideVars == <<scratchVars, appenders, schedVars, initers, command>>

vars == <<variant, pc, procs, timers, now, error, responses, seqVars, composeVars,
          sideVars, sweep>>

Variants == {"celebrate", "legacy"}

\* ------------------------------------------------------------- paths
NoPath == [kind |-> "none", n |-> 0]
DefaultVideoPath == [kind |-> "default_video", n |-> 0]
VideoFile(u) == [kind |-> "video", n |-> u]
AudioFile(u) == [kind |-> "audio", n |-> u]
SegmentFile(i) == [kind |-> "segment", n |-> i]
ConcatListFile == [kind |-> "concat_list", n |-> 0]
FinalOutputFile(u) == [kind |-> "final_output", n |-> u]

\* ---------------------------------------------------------- contents
\* Buffer.from(base_64, 'base64'): the bytes the payload encodes
Decode(b) == [tag |-> "bytes", of |-> b]
DefaultContent == [tag |-> "bytes", of |-> 0]
\* what the engine writes for -shortest of a video and an audio input
Overlay(v, a) == [tag |-> "overlay", video |-> v, audio |-> a]
\* what the engine writes for -f concat -c copy of the listed files
Concat(parts) == [tag |-> "concat", parts |-> parts]

\* what is in the output file of an engine that has not finished writing it
PartialContent == [tag |-> "partial"]

Exists(p) == p \in DOMAIN files
ReadFile(p) == IF p = DefaultVideoPath THEN DefaultContent ELSE files[p]
WriteFile(p, c) == [q \in DOMAIN files \cup {p} |-> IF q = p THEN c ELSE files[q]]
NoFiles == [q \in {} |-> DefaultContent]

\* ----------------------------------------------------------- sorting
\* a comparator that answers "less" for equal keys
CompareByIdTiesFirst(a, b) == IF a.id <= b.id THEN -1 ELSE 1

\* the comparator handed to data.sort
CompareById(a, b) == a.id - b.id

\* Array.prototype.sort on a short array is a binary insertion sort: x goes
\* before the elements of the sorted run it compares less than, after the rest
RECURSIVE InsertInto(_, _)
InsertInto(s, x) ==
    IF s = <<>> THEN <<x>>
    ELSE IF CompareById(x, s[Len(s)]) < 0
         THEN Append(InsertInto(SubSeq(s, 1, Len(s) - 1), x), s[Len(s)])
         ELSE Append(s, x)

RECURSIVE SortById(_)
SortById(s) ==
    IF s = <<>> THEN <<>>
    ELSE InsertInto(SortById(SubSeq(s, 1, Len(s) - 1)), s[Len(s)])

\* data/temp_single_api itself, the directory of the earlier version
SharedTempDir == [kind |-> "temp_single_api", n |-> 0]
\* data/temp_single_api/<processId>
TempDir(id) == [kind |-> "temp_single_api", n |-> id]
\* path.join(tempDir, name)
InDir(d, f) == [dir |-> d, file |-> f]
NoWriters == [q \in {} |-> {}]

\* no sweep has returned yet
NoSweep == [outcome |-> "none", selectedAt |-> 0]

\* ---------------------------------------------------------- responses
Respond(status, body) == Append(responses, [status |-> status, body |-> body])
ErrorBody(msg) == [error |-> IF msg = "" THEN "Internal server error" ELSE msg]

\* no command has been built
NoCommand == [inputs |-> <<>>, filter |-> <<>>, maps |-> <<>>]

\* ---------------------------------------------------------------- Init
Init ==
    /\ variant = "celebrate"
    /\ reqType = SequentialType
    /\ reqData = <<>>
    /\ data = <<>>
    /\ pc = "idle"
    /\ uuidCount = 0
    /\ processId = 0
    /\ dirExists = FALSE
    /\ files = NoFiles
    /\ currentVideoPath = NoPath
    /\ segmentFiles = <<>>
    /\ segmentIndex = 0
    /\ cursor = 1
    /\ procs = <<>>
    /\ timers = {}
    /\ now = 0
    /\ error = ""
    /\ responses = <<>>
    /\ cleanupLog = "none"
    /\ timeline = <<>>
    /\ clips = <<>>
    /\ tableExists = FALSE
    /\ rows = <<>>
    /\ requestId = 0
    /\ folders = {}
    /\ composed = NoFiles
    /\ outputPath = NoPath
    /\ scratchReqs = [r \in 1..NumRequests |->
                         [variant |-> "celebrate", pc |-> "new", tempDir |-> NoPath,
                          segmentIndex |-> 0, segments |-> 0]]
    /\ scratchDirs = {}
    /\ scratchFiles = NoWriters
    /\ scratchUuids = 0
    /\ sweep = [pc |-> "idle", expiredRecords |-> <<>>]
    /\ appenders = [c \in Appenders |->
                       [pc |-> "idle", steps |-> <<>>, currentSteps |-> <<>>,
                        readOk |-> FALSE]]
    /\ jobs = <<>>
    /\ runs = <<>>
    /\ sched = [started |-> FALSE, ticks |-> 0, sweeps |-> 0, last |-> NoSweep]
    /\ initers = [c \in InitCallers |->
                     [pc |-> "idle", exists |-> FALSE, created |-> FALSE, error |-> ""]]
    /\ command = NoCommand

\* ------------------------------------------------------ request intake
\* the schema without .min(1) on data
SchemaAcceptsEmpty(t, d) ==
    /\ t = SequentialType
    /\ \A i \in 1..Len(d) : d[i].type \in {"video", "tts"}

\* sequentialVideoSchema, enforced by celebrate before the handler runs
SchemaAccepts(t, d) ==
    /\ t = SequentialType
    /\ Len(d) >= 1
    /\ \A i \in 1..Len(d) : d[i].type \in {"video", "tts"}

\* A client submits a request body to one of the two versions of the route.
\* The earlier version works in the shared directory data/temp_single_api,
\* which an earlier request may have created already.
Receive ==
    /\ pc = "idle"
    /\ \E v \in Variants, t \in ReqTypes, d \in Bodies, shared \in BOOLEAN :
          /\ variant' = v
          /\ reqType' = t
          /\ reqData' = d
          /\ data' = d
          /\ dirExists' = (v = "legacy" /\ shared)
    /\ pc' = "gate"
    /\ UNCHANGED <<uuidCount, processId, files, currentVideoPath, segmentFiles,
                   segmentIndex, cursor, procs, timers, now, error, responses,
                   cleanupLog,
                   composeVars, sideVars, sweep>>

\* celebrate({ BODY: sequentialVideoSchema }): a body the schema refuses never
\* reaches the handler; the earlier version has no schema in front of it
Validate ==
    /\ pc = "gate"
    /\ IF variant = "legacy" \/ SchemaAccepts(reqType, reqData)
       THEN /\ pc' = "prologue"
            /\ UNCHANGED responses
       ELSE /\ pc' = "done"
            /\ responses' = Respond(400, ErrorBody(MsgValidation))
    /\ UNCHANGED <<variant, reqType, reqData, data, uuidCount, processId,
                   dirExists, files, currentVideoPath, segmentFiles,
                   segmentIndex, cursor, procs, timers, now, error, cleanupLog,
                   composeVars, sideVars, sweep>>

\* ------------------------------------------------------------- handler
\* a return that leaves the handler without running the finally block
PcAfterReturnSkipsFinally == "done"

\* where a return inside try { } finally { } continues
PcAfterReturn == "finally"

\* no active video before the first video segment
InitialActiveVideoNone == NoPath

\* the active video before the first segment
InitialActiveVideo == DefaultVideoPath

\* processId, tempDir, the type check and the creation of the directory
Prologue ==
    /\ pc = "prologue"
    /\ variant = "celebrate"
    /\ uuidCount' = uuidCount + 1
    /\ processId' = uuidCount + 1
    /\ IF reqType # SequentialType
       THEN /\ responses' = Respond(400, ErrorBody(MsgUnsupported))
            /\ pc' = PcAfterReturn
            /\ UNCHANGED <<dirExists, error>>
       ELSE \E mkdirOk \in BOOLEAN :
               IF mkdirOk
               THEN /\ dirExists' = TRUE
                    /\ pc' = "sort"
                    /\ UNCHANGED <<error, responses>>
               ELSE /\ error' = MsgFs
                    /\ pc' = "catch"
                    /\ UNCHANGED <<dirExists, responses>>
    /\ UNCHANGED <<variant, reqType, reqData, data, files, currentVideoPath,
                   segmentFiles, segmentIndex, cursor, procs, timers, now,
                   cleanupLog,
                   composeVars, sideVars, sweep>>

\* data.sort, then the default active video, which has to exist
SortAndDefault ==
    /\ pc = "sort"
    /\ data' = SortById(data)
    /\ segmentFiles' = <<>>
    /\ segmentIndex' = 0
    /\ cursor' = 1
    /\ currentVideoPath' = InitialActiveVideo
    /\ \E defaultExists \in BOOLEAN :
          IF defaultExists
          THEN /\ pc' = "loop"
               /\ UNCHANGED error
          ELSE /\ error' = MsgDefaultMissing
               /\ pc' = "catch"
    /\ UNCHANGED <<variant, reqType, reqData, uuidCount, processId, dirExists,
                   files, procs, timers, now, responses, cleanupLog,
                   composeVars, sideVars, sweep>>

\* the earlier version, from its first line to the loop: the two explicit
\* checks, the sort, the shared directory, the default video (never checked)
LegacyPrologue ==
    /\ pc = "prologue"
    /\ variant = "legacy"
    /\ IF reqType # SequentialType
       THEN /\ responses' = Respond(400, ErrorBody(MsgUnsupported))
            /\ pc' = "done"
            /\ UNCHANGED <<data, dirExists, currentVideoPath, error>>
       ELSE IF Len(data) = 0
       THEN /\ responses' = Respond(400, ErrorBody(MsgEmptyData))
            /\ pc' = "done"
            /\ UNCHANGED <<data, dirExists, currentVideoPath, error>>
       ELSE /\ data' = SortById(data)
            /\ \E mkdirOk \in BOOLEAN :
                  IF dirExists \/ mkdirOk
                  THEN /\ dirExists' = TRUE
                       /\ currentVideoPath' = InitialActiveVideo
                       /\ pc' = "loop"
                       /\ UNCHANGED <<error, responses>>
                  ELSE /\ error' = MsgFs
                       /\ pc' = "catch"
                       /\ UNCHANGED <<dirExists, currentVideoPath, responses>>
    /\ UNCHANGED <<variant, reqType, reqData, uuidCount, processId, files,
                   segmentFiles, segmentIndex, cursor, procs, timers, now,
                   cleanupLog,
                   composeVars, sideVars, sweep>>

\* a video segment that leaves the active video as it was
ActiveAfterVideoKept(cur, f) == cur

\* the active video after a video segment was written to file f
ActiveAfterVideo(cur, f) == f

\* a counter that is never advanced: every overlay writes segment_0.mp4
NextSegmentIndexStuck(i) == i

\* segmentIndex++
NextSegmentIndex(i) == i + 1

\* no timer is armed
ArmNoTimer(inv, ms) == timers

\* setTimeout(() => reject(...), ms) for invocation inv
ArmTimer(inv, ms) == timers \cup {[inv |-> inv, deadline |-> now + ms]}

\* a launched engine process and the promise that waits for it
Launch(kind, video, audio, list, out) ==
    Append(procs, [kind |-> kind, video |-> video, audio |-> audio,
                   list |-> list, out |-> out, state |-> "running",
                   promise |-> "pending", started |-> now])

\* one iteration of for (const segment of data), up to its await on the engine
ProcessSegment ==
    /\ pc = "loop"
    /\ cursor <= Len(data)
    /\ LET segment == data[cursor]
           u == uuidCount + 1
       IN  /\ uuidCount' = IF segment.type \in {"video", "tts"} THEN u ELSE uuidCount
           /\ \E writeOk \in BOOLEAN :
                 CASE segment.type = "video" ->
                        IF writeOk
                        THEN /\ files' = WriteFile(VideoFile(u), Decode(segment.base_64))
                             /\ currentVideoPath' =
                                   ActiveAfterVideo(currentVideoPath, VideoFile(u))
                             /\ cursor' = cursor + 1
                             /\ UNCHANGED <<pc, error, segmentIndex, procs, timers>>
                        ELSE /\ error' = MsgFs
                             /\ pc' = "catch"
                             /\ UNCHANGED <<files, currentVideoPath, cursor,
                                            segmentIndex, procs, timers>>
                   [] segment.type = "tts" ->
                        IF writeOk
                        THEN /\ files' = WriteFile(AudioFile(u), Decode(segment.base_64))
                             /\ segmentIndex' = NextSegmentIndex(segmentIndex)
                             /\ procs' = Launch("overlay", currentVideoPath, AudioFile(u),
                                                <<>>, SegmentFile(segmentIndex))
                             /\ timers' = IF variant = "legacy" THEN timers
                                          ELSE ArmTimer(Len(procs) + 1, OverlayTimeoutMs)
                             /\ pc' = "await_overlay"
                             /\ UNCHANGED <<currentVideoPath, cursor, error>>
                        ELSE /\ error' = MsgFs
                             /\ pc' = "catch"
                             /\ UNCHANGED <<files, currentVideoPath, cursor,
                                            segmentIndex, procs, timers>>
                   [] OTHER ->
                        /\ cursor' = cursor + 1
                        /\ UNCHANGED <<pc, error, files, currentVideoPath,
                                       segmentIndex, procs, timers>>
    /\ UNCHANGED <<variant, reqType, reqData, data, processId, dirExists,
                   segmentFiles, now, responses, cleanupLog,
                   composeVars, sideVars, sweep>>

\* after the loop: the empty check, the manifest and the launch of the
\* concatenation
AfterLoop ==
    /\ pc = "loop"
    /\ cursor > Len(data)
    /\ IF Len(segmentFiles) = 0
       THEN /\ responses' = Respond(400, ErrorBody(IF variant = "legacy"
                                                    THEN MsgNoSegmentsLegacy
                                                    ELSE MsgNoSegments))
            /\ pc' = IF variant = "legacy" THEN "done" ELSE PcAfterReturn
            /\ UNCHANGED <<uuidCount, files, procs, timers, error>>
       ELSE \E writeOk \in BOOLEAN :
               IF writeOk
               THEN /\ files' = WriteFile(ConcatListFile, segmentFiles)
                    /\ uuidCount' = uuidCount + 1
                    /\ procs' = Launch("concat", NoPath, NoPath, segmentFiles,
                                       FinalOutputFile(uuidCount + 1))
                    /\ timers' = IF variant = "legacy" THEN timers
                                 ELSE ArmTimer(Len(procs) + 1, ConcatTimeoutMs)
                    /\ pc' = "await_concat"
                    /\ UNCHANGED <<error, responses>>
               ELSE /\ error' = MsgFs
                    /\ pc' = "catch"
                    /\ UNCHANGED <<uuidCount, files, procs, timers, responses>>
    /\ UNCHANGED <<variant, reqType, reqData, data, processId, dirExists,
                   currentVideoPath, segmentFiles, segmentIndex, cursor, now,
                   cleanupLog,
                   composeVars, sideVars, sweep>>

\* ------------------------------------------------- engine and timers
\* a promise that takes the outcome of every call of resolve()/reject()
SettleOverwrites(p, outcome) == outcome

\* resolve()/reject() of a promise: only the first call settles it
Settle(p, outcome) == IF p.promise = "pending" THEN outcome ELSE p.promise

\* the state of the engine process of an invocation whose timer fired: the
\* timeout callback only rejects the promise, the command is left alone
StateAfterTimeout(p) == p.state

\* a catch that logs the rejection and goes on with the next segment
OnOverlayRejectedSwallowed(c) == [pc |-> "loop", cursor |-> c + 1]

\* where the handler continues when the awaited overlay is rejected: the
\* catch of the tts branch logs and throws again
OnOverlayRejected(c) == [pc |-> "catch", cursor |-> c]

InputsPresent(p) ==
    IF p.kind = "overlay"
    THEN (p.video = DefaultVideoPath \/ Exists(p.video)) /\ Exists(p.audio)
    ELSE \A k \in 1..Len(p.list) : Exists(p.list[k])

Produced(p) ==
    IF p.kind = "overlay"
    THEN Overlay(ReadFile(p.video), ReadFile(p.audio))
    ELSE Concat([k \in 1..Len(p.list) |-> ReadFile(p.list[k])])

TimeoutMessage(p) == IF p.kind = "overlay" THEN MsgOverlayTimeout ELSE MsgConcatTimeout

\* the handler's continuation when the promise of invocation p is rejected
Rejected(p, msg) ==
    /\ error' = msg
    /\ IF p.kind = "overlay"
       THEN /\ pc' = OnOverlayRejected(cursor).pc
            /\ cursor' = OnOverlayRejected(cursor).cursor
       ELSE /\ pc' = "catch"
            /\ UNCHANGED cursor

\* the engine of invocation i opens its output file and writes the first part
\* of it: .save(outputSegmentFile), .save(finalOutputFile)
EngineWrites(i) ==
    /\ procs[i].kind \in {"overlay", "concat"}
    /\ procs[i].state = "running"
    /\ dirExists
    /\ InputsPresent(procs[i])
    /\ ~Exists(procs[i].out)
    /\ files' = WriteFile(procs[i].out, PartialContent)
    /\ UNCHANGED <<variant, reqType, reqData, data, pc, uuidCount, processId,
                   dirExists, currentVideoPath, segmentFiles, segmentIndex,
                   cursor, procs, timers, now, error, responses, cleanupLog,
                   composeVars, sideVars, sweep>>

\* the engine finishes invocation i: the output is complete and 'end' fires
EngineEnd(i) ==
    /\ procs[i].kind \in {"overlay", "concat"}
    /\ procs[i].state = "running"
    /\ dirExists
    /\ InputsPresent(procs[i])
    /\ files' = WriteFile(procs[i].out, Produced(procs[i]))
    /\ procs' = [procs EXCEPT ![i].state = "ended",
                              ![i].promise = Settle(procs[i], "resolved")]
    /\ IF procs[i].promise = "pending"
       THEN IF procs[i].kind = "overlay"
            THEN /\ segmentFiles' = Append(segmentFiles, procs[i].out)
                 /\ cursor' = cursor + 1
                 /\ pc' = "loop"
            ELSE /\ pc' = "send"
                 /\ UNCHANGED <<segmentFiles, cursor>>
       ELSE UNCHANGED <<segmentFiles, cursor, pc>>
    /\ UNCHANGED <<variant, reqType, reqData, data, uuidCount, processId,
                   dirExists, currentVideoPath, segmentIndex, timers, now, error,
                   responses, cleanupLog,
                   composeVars, sideVars, sweep>>

\* the engine fails invocation i: 'error' fires
EngineError(i) ==
    /\ procs[i].kind \in {"overlay", "concat"}
    /\ procs[i].state = "running"
    /\ procs' = [procs EXCEPT ![i].state = "errored",
                              ![i].promise = Settle(procs[i], "rejected_error")]
    /\ IF procs[i].promise = "pending"
       THEN Rejected(procs[i], MsgEngine)
       ELSE UNCHANGED <<error, pc, cursor>>
    /\ UNCHANGED <<variant, reqType, reqData, data, uuidCount, processId,
                   dirExists, files, currentVideoPath, segmentFiles, segmentIndex,
                   timers, now, responses, cleanupLog,
                   composeVars, sideVars, sweep>>

\* a setTimeout callback runs: it rejects the promise of its invocation. The
\* runtime runs due timers in the order of their deadlines, which here is the
\* order in which they were armed
TimerFires(t) ==
    /\ t \in timers
    /\ now >= t.deadline
    /\ \A u \in timers : u.inv >= t.inv
    /\ timers' = timers \ {t}
    /\ procs' = [procs EXCEPT ![t.inv].state = StateAfterTimeout(procs[t.inv]),
                              ![t.inv].promise = Settle(procs[t.inv], "rejected_timeout")]
    /\ IF procs[t.inv].promise = "pending"
       THEN Rejected(procs[t.inv], TimeoutMessage(procs[t.inv]))
       ELSE UNCHANGED <<error, pc, cursor>>
    /\ UNCHANGED <<variant, reqType, reqData, data, uuidCount, processId,
                   dirExists, files, currentVideoPath, segmentFiles, segmentIndex,
                   now, responses, cleanupLog,
                   composeVars, sideVars, sweep>>

\* time passes while the handler is suspended on the engine, or after it has
\* ended with timers still armed; a due timer runs before time moves on. The
\* clock is read by the timers and by the compose route only, so it is left
\* alone in the earlier version of the handler, which has neither
Tick ==
    /\ \/ pc \in {"await_overlay", "await_concat"} /\ variant # "legacy"
       \/ pc = "await_compose"
       \/ pc = "done" /\ timers # {}
    /\ now + TickMs <= MaxTicks * TickMs
    /\ \A t \in timers : t.deadline >= now + TickMs
    /\ now' = now + TickMs
    /\ UNCHANGED <<variant, reqType, reqData, data, pc, uuidCount, processId,
                   dirExists, files, currentVideoPath, segmentFiles, segmentIndex,
                   cursor, procs, timers, error, responses, cleanupLog,
                   composeVars, sideVars, sweep>>

\* ------------------------------------------------- end of the handler
\* the final artifact is read and sent
SendFinal ==
    /\ pc = "send"
    /\ LET finalOutputFile == procs[Len(procs)].out
       IN  \E readOk \in BOOLEAN :
              IF readOk /\ Exists(finalOutputFile)
              THEN /\ responses' = Respond(200, ReadFile(finalOutputFile))
                   /\ pc' = IF variant = "legacy" THEN "done" ELSE "finally"
                   /\ UNCHANGED error
              ELSE /\ error' = MsgFs
                   /\ pc' = "catch"
                   /\ UNCHANGED responses
    /\ UNCHANGED <<variant, reqType, reqData, data, uuidCount, processId,
                   dirExists, files, currentVideoPath, segmentFiles, segmentIndex,
                   cursor, procs, timers, now, cleanupLog,
                   composeVars, sideVars, sweep>>

\* catch (error): the 500 response
Catch ==
    /\ pc = "catch"
    /\ responses' = Respond(500, ErrorBody(error))
    /\ pc' = IF variant = "legacy" THEN "done" ELSE "finally"
    /\ UNCHANGED <<variant, reqType, reqData, data, uuidCount, processId,
                   dirExists, files, currentVideoPath, segmentFiles, segmentIndex,
                   cursor, procs, timers, now, error, cleanupLog,
                   composeVars, sideVars, sweep>>

\* fs.rmSync(tempDir, { recursive, force }) inside try/catch: a failure is
\* logged and swallowed
cleanupTempDir(rmOk) ==
    IF rmOk
    THEN /\ dirExists' = FALSE
         /\ files' = NoFiles
         /\ cleanupLog' = "cleaned"
    ELSE /\ cleanupLog' = "error"
         /\ UNCHANGED <<dirExists, files>>

\* finally: the cleanup of the scratch directory
Finally ==
    /\ pc = "finally"
    /\ \E rmOk \in BOOLEAN : cleanupTempDir(rmOk \/ ~dirExists)
    /\ pc' = "done"
    /\ UNCHANGED <<variant, reqType, reqData, data, uuidCount, processId,
                   currentVideoPath, segmentFiles, segmentIndex, cursor, procs,
                   timers, now, error, responses,
                   composeVars, sideVars, sweep>>


\* ===================================================================
\* The job-tracked compose route
\* ===================================================================
NoValue == -1

\* the assets of a compose request: a trimmed video, an audio without
\* startTrim, a text asset, and a video without source.url
AssetTable ==
    << [id |-> "v1", type |-> "video", url |-> "u1", startTrim |-> 1500, duration |-> 2000],
       [id |-> "a1", type |-> "audio", url |-> "u2", startTrim |-> NoValue, duration |-> 500],
       [id |-> "t1", type |-> "text", url |-> "", startTrim |-> NoValue, duration |-> 1000],
       [id |-> "v2", type |-> "video", url |-> "", startTrim |-> 0, duration |-> 1000] >>

AssetIds == {"v1", "a1", "t1", "v2", "missing"}

TimelineItems == [assetId : AssetIds, startTime : 0..MaxStart]

Timelines == UNION {[1..k -> TimelineItems] : k \in 0..MaxTimeline}

\* ms / 1000, as a decimal with three fractional digits
MsToSeconds(ms) == [whole |-> ms \div 1000, frac |-> ms % 1000]

\* a comparator that orders by descending startTime
CompareByStartTimeDescending(a, b) == b.startTime - a.startTime

\* the comparator handed to [...timeline].sort
CompareByStartTime(a, b) == a.startTime - b.startTime

RECURSIVE InsertByStartTime(_, _)
InsertByStartTime(s, x) ==
    IF s = <<>> THEN <<x>>
    ELSE IF CompareByStartTime(x, s[Len(s)]) < 0
         THEN Append(InsertByStartTime(SubSeq(s, 1, Len(s) - 1), x), s[Len(s)])
         ELSE Append(s, x)

RECURSIVE SortByStartTime(_)
SortByStartTime(s) ==
    IF s = <<>> THEN <<>>
    ELSE InsertByStartTime(SortByStartTime(SubSeq(s, 1, Len(s) - 1)), s[Len(s)])

\* assets.find((a) => a.id === id): the index of the first match, 0 if none
FindAsset(assets, id) ==
    IF \E k \in 1..Len(assets) : assets[k].id = id
    THEN CHOOSE k \in 1..Len(assets) :
            /\ assets[k].id = id
            /\ \A j \in 1..(k - 1) : assets[j].id # id
    ELSE 0

\* the clip pushed for a video or audio asset that has a source.url
ClipOf(asset) ==
    [src |-> asset.url,
     start |-> MsToSeconds(IF asset.startTrim = NoValue THEN 0 ELSE asset.startTrim),
     duration |-> MsToSeconds(asset.duration)]

RECURSIVE ClipsOf(_, _)
ClipsOf(assets, sorted) ==
    IF sorted = <<>> THEN <<>>
    ELSE LET k == FindAsset(assets, sorted[1].assetId)
             rest == ClipsOf(assets, Tail(sorted))
         IN  IF k = 0 THEN rest
             ELSE IF assets[k].type \in {"video", "audio"} /\ assets[k].url # ""
                  THEN <<ClipOf(assets[k])>> \o rest
                  ELSE rest

transformToConcatClips(assets, tl) == ClipsOf(assets, SortByStartTime(tl))

\* data/composeVideo/<requestId>
FolderPath(id) == [kind |-> "compose_folder", n |-> id]
\* data/composedVideos/video-<Date.now()>.<outputFormat>
ComposedFile(t) == [kind |-> "composed", n |-> t]
\* what the engine writes for the trim and concat filter over the clips
TrimConcat(cs) == [tag |-> "trimconcat", clips |-> cs]

\* the argument of updateVideoCompositionProgress; "" and NoPath and NoValue
\* stand for a key that is not given
Updates(status, steps, videoPath, expiration) ==
    [status |-> status, steps |-> steps, video_path |-> videoPath,
     expiration_time |-> expiration]

\* getCurrentSteps: the steps of the row, [] when there is no row or the
\* read fails
getCurrentSteps(id, readOk) ==
    IF readOk /\ id \in DOMAIN rows THEN rows[id].steps ELSE <<>>

\* a merge with the log as it is when the write happens
MergedStepsAtWrite(id, currentSteps, updates) ==
    IF id \in DOMAIN rows THEN rows[id].steps \o updates.steps ELSE updates.steps

\* mergedSteps: the steps read, with the new ones after them
MergedSteps(id, currentSteps, updates) ==
    IF Len(updates.steps) > 0
    THEN currentSteps \o updates.steps
    ELSE currentSteps

\* the table after .where({ id }).update(updateData) went through
RowsAfterUpdate(id, updates, mergedSteps) ==
    [r \in DOMAIN rows |->
        IF r # id THEN rows[r]
        ELSE [rows[r] EXCEPT
                !.steps = mergedSteps,
                !.status = IF updates.status = "" THEN @ ELSE updates.status,
                !.video_path = IF updates.video_path = NoPath THEN @
                               ELSE updates.video_path,
                !.expiration_time = IF updates.expiration_time = NoValue THEN @
                                    ELSE updates.expiration_time]]

\* the table after updateVideoCompositionProgress(id, updates) went through
\* with nothing in between its read and its write
updateVideoCompositionProgress(id, updates, readOk) ==
    RowsAfterUpdate(id, updates,
                    MergedSteps(id, getCurrentSteps(id, readOk), updates))

\* a creation that inserts no row
createRecordInsertsNothing(id, status, steps, folder) == rows

\* the table after createVideoCompositionRecord(record) went through
createVideoCompositionRecord(id, status, steps, folder) ==
    [r \in DOMAIN rows \cup {id} |->
        IF r = id
        THEN [status |-> status, steps |-> steps, folder_path |-> folder,
              video_path |-> NoPath, expiration_time |-> NoValue]
        ELSE rows[r]]

ComposeError(msg) == [status |-> "error", message |-> msg]

MsgTable == "No se pudo inicializar la tabla de composiciones."
MsgFolder == "No se pudo crear la carpeta de almacenamiento de composicion."
MsgRecord == "No se pudo crear el registro de la composicion en la BD."
MsgTransform == "Ocurrio un error al transformar los datos de composicion."
MsgNoClips == "No se encontraron clips de video/audio para procesar."
MsgCompose == "Ocurrio un error al componer el video con ffmpeg."
MsgDb == "database error"

\* A client submits a valid body to the compose route; the table may be
\* there from an earlier request
ReceiveCompose ==
    /\ pc = "idle"
    /\ variant' = "compose"
    /\ \E tl \in Timelines, t \in BOOLEAN :
          /\ timeline' = tl
          /\ tableExists' = t
    /\ pc' = "c_init"
    /\ UNCHANGED <<procs, timers, now, error, responses, seqVars, sideVars, sweep, clips,
                   rows,
                   requestId, folders, composed, outputPath>>

\* 1) initializeVideoCompositionTable
InitializeTable ==
    /\ pc = "c_init"
    /\ \E dbOk \in BOOLEAN :
          IF dbOk
          THEN /\ tableExists' = TRUE
               /\ pc' = "c_folder"
               /\ UNCHANGED responses
          ELSE /\ responses' = Respond(500, ComposeError(MsgTable))
               /\ pc' = "done"
               /\ UNCHANGED tableExists
    /\ UNCHANGED <<variant, procs, timers, now, error, seqVars, sideVars, sweep,
                   timeline, clips,
                   rows, requestId, folders, composed, outputPath>>

\* 2) the job id, 3) the job folder
CreateFolder ==
    /\ pc = "c_folder"
    /\ requestId' = 1
    /\ \E mkdirOk \in BOOLEAN :
          IF mkdirOk
          THEN /\ folders' = folders \cup {FolderPath(1)}
               /\ pc' = "c_record"
               /\ UNCHANGED responses
          ELSE /\ responses' = Respond(500, ComposeError(MsgFolder))
               /\ pc' = "done"
               /\ UNCHANGED folders
    /\ UNCHANGED <<variant, procs, timers, now, error, seqVars, sideVars, sweep,
                   timeline, clips,
                   tableExists, rows, composed, outputPath>>

\* 4) the initial record
CreateRecord ==
    /\ pc = "c_record"
    /\ \E dbOk \in BOOLEAN :
          IF dbOk
          THEN /\ rows' = createVideoCompositionRecord(requestId, "in_progress",
                             <<"record_creation_success">>, FolderPath(requestId))
               /\ pc' = "c_transform"
               /\ UNCHANGED responses
          ELSE /\ responses' = Respond(500, ComposeError(MsgRecord))
               /\ pc' = "done"
               /\ UNCHANGED rows
    /\ UNCHANGED <<variant, procs, timers, now, error, seqVars, sideVars, sweep,
                   timeline, clips,
                   tableExists, requestId, folders, composed, outputPath>>

\* what the compose handler leaves alone while it works on its job
ComposeFrame == <<variant, timers, now, seqVars, sideVars, sweep, timeline,
                  tableExists, requestId, folders>>

\* an update of the job's row that may fail: the table when it went through
TryUpdate(dbOk, readOk, updates) ==
    IF dbOk
    THEN rows' = updateVideoCompositionProgress(requestId, updates, readOk)
    ELSE UNCHANGED rows

\* 5) transformToConcatClips and the step "transform_clips_success"
Transform ==
    /\ pc = "c_transform"
    /\ clips' = transformToConcatClips(AssetTable, timeline)
    /\ \E dbOk \in BOOLEAN, readOk \in BOOLEAN :
          /\ TryUpdate(dbOk, readOk,
                       Updates("", <<"transform_clips_success">>, NoPath, NoValue))
          /\ IF dbOk
             THEN /\ pc' = "c_check"
                  /\ UNCHANGED error
             ELSE /\ pc' = "c_transform_failed"
                  /\ error' = MsgDb
    /\ UNCHANGED <<ComposeFrame, procs, responses, composed, outputPath>>

\* a failure path that lacks its return and goes on to step 7
PcAfterFailureFallsThrough == "c_complete"

\* return res.status(400).json(...) after the job was marked failed: the
\* handler is over
PcAfterFailure == "done"

\* catch (transformError): the job is marked failed and the request refused;
\* an update that fails here leaves for the general catch
TransformFailed ==
    /\ pc = "c_transform_failed"
    /\ \E dbOk \in BOOLEAN, readOk \in BOOLEAN :
          /\ TryUpdate(dbOk, readOk,
                       Updates("failed", <<"transform_clips_failure">>, NoPath, NoValue))
          /\ IF dbOk
             THEN /\ responses' = Respond(400, ComposeError(MsgTransform))
                  /\ pc' = PcAfterFailure
                  /\ UNCHANGED error
             ELSE /\ pc' = "c_catch"
                  /\ error' = MsgDb
                  /\ UNCHANGED responses
    /\ UNCHANGED <<ComposeFrame, procs, clips, composed, outputPath>>

\* a check for clips that lets every list through
NoClipsNever(cs) == FALSE

\* !concatData.clips.length
NoClips(cs) == Len(cs) = 0

\* the check for clips, then 6) composeVideo up to its await on the engine
CheckClipsAndCompose ==
    /\ pc = "c_check"
    /\ IF NoClips(clips)
       THEN /\ \E dbOk \in BOOLEAN, readOk \in BOOLEAN :
                  /\ TryUpdate(dbOk, readOk,
                               Updates("failed", <<"no_valid_clips_found">>, NoPath, NoValue))
                  /\ IF dbOk
                     THEN /\ responses' = Respond(400, ComposeError(MsgNoClips))
                          /\ pc' = PcAfterFailure
                          /\ UNCHANGED error
                     ELSE /\ pc' = "c_catch"
                          /\ error' = MsgDb
                          /\ UNCHANGED responses
            /\ UNCHANGED procs
       ELSE /\ \E mkdirOk \in BOOLEAN :
                  IF mkdirOk
                  THEN /\ procs' = Launch("trimconcat", NoPath, NoPath, clips,
                                          ComposedFile(now))
                       /\ pc' = "await_compose"
                       /\ UNCHANGED error
                  ELSE /\ pc' = "c_compose_failed"
                       /\ error' = MsgFs
                       /\ UNCHANGED procs
            /\ UNCHANGED <<rows, responses>>
    /\ UNCHANGED <<ComposeFrame, clips, composed, outputPath>>

\* the engine of the composition opens its output file and writes the first
\* part of it: .output(outputPath) ... .run()
TrimConcatWrites(i) ==
    /\ procs[i].kind = "trimconcat"
    /\ procs[i].state = "running"
    /\ procs[i].out \notin DOMAIN composed
    /\ composed' = [q \in DOMAIN composed \cup {procs[i].out} |->
                      IF q = procs[i].out THEN PartialContent ELSE composed[q]]
    /\ UNCHANGED <<ComposeFrame, pc, procs, error, responses, clips, rows,
                   outputPath>>

\* the engine finishes the composition: 'end' fires and composeVideo resolves
\* with the path of the output
TrimConcatEnd(i) ==
    /\ procs[i].kind = "trimconcat"
    /\ procs[i].state = "running"
    /\ composed' = [q \in DOMAIN composed \cup {procs[i].out} |->
                      IF q = procs[i].out THEN TrimConcat(procs[i].list)
                      ELSE composed[q]]
    /\ procs' = [procs EXCEPT ![i].state = "ended",
                              ![i].promise = Settle(procs[i], "resolved")]
    /\ outputPath' = procs[i].out
    /\ pc' = "c_composed"
    /\ UNCHANGED <<ComposeFrame, error, responses, clips, rows>>

\* the engine fails the composition: 'error' fires and composeVideo rejects
TrimConcatError(i) ==
    /\ procs[i].kind = "trimconcat"
    /\ procs[i].state = "running"
    /\ procs' = [procs EXCEPT ![i].state = "errored",
                              ![i].promise = Settle(procs[i], "rejected_error")]
    /\ error' = MsgEngine
    /\ pc' = "c_compose_failed"
    /\ UNCHANGED <<ComposeFrame, responses, clips, rows, composed, outputPath>>

\* the step "compose_video_success"
RecordComposed ==
    /\ pc = "c_composed"
    /\ \E dbOk \in BOOLEAN, readOk \in BOOLEAN :
          /\ TryUpdate(dbOk, readOk,
                       Updates("", <<"compose_video_success">>, NoPath, NoValue))
          /\ IF dbOk
             THEN /\ pc' = "c_complete"
                  /\ UNCHANGED error
             ELSE /\ pc' = "c_compose_failed"
                  /\ error' = MsgDb
    /\ UNCHANGED <<ComposeFrame, procs, responses, clips, composed, outputPath>>

\* { status: 'failed', steps: ['compose_video_failure'] }
ComposeFailureUpdate ==
    Updates("failed", <<"compose_video_failure">>, NoPath, NoValue)

\* catch (composeErr): the job is marked failed and the request refused
ComposeFailed ==
    /\ pc = "c_compose_failed"
    /\ \E dbOk \in BOOLEAN, readOk \in BOOLEAN :
          /\ TryUpdate(dbOk, readOk, ComposeFailureUpdate)
          /\ IF dbOk
             THEN /\ responses' = Respond(400, ComposeError(MsgCompose))
                  /\ pc' = PcAfterFailure
                  /\ UNCHANGED error
             ELSE /\ pc' = "c_catch"
                  /\ error' = MsgDb
                  /\ UNCHANGED responses
    /\ UNCHANGED <<ComposeFrame, procs, clips, composed, outputPath>>

\* an update to completed that gives no expiration
CompletedUpdateWithoutExpiration(path, t) ==
    Updates("completed", <<"video_composed">>, path, NoValue)

\* { status: 'completed', steps: ['video_composed'], video_path: outputPath,
\*   expiration_time: new Date(Date.now() + 60 * 60 * 1000) }
CompletedUpdate(path, t) ==
    Updates("completed", <<"video_composed">>, path, t + ExpirationMs)

\* 7) the job is marked completed; a failure of this update is only logged
Complete ==
    /\ pc = "c_complete"
    /\ \E dbOk \in BOOLEAN, readOk \in BOOLEAN :
          TryUpdate(dbOk, readOk, CompletedUpdate(outputPath, now))
    /\ responses' = Respond(200, [status |-> "success", outputPath |-> outputPath])
    /\ pc' = "done"
    /\ UNCHANGED <<ComposeFrame, procs, error, clips, composed, outputPath>>

\* the general catch: one more attempt to mark the job failed, then the answer
GeneralCatch ==
    /\ pc = "c_catch"
    /\ \E dbOk \in BOOLEAN, readOk \in BOOLEAN :
          TryUpdate(dbOk, readOk,
                    Updates("failed", <<"failed_in_general_catch">>, NoPath, NoValue))
    /\ responses' = Respond(400, ComposeError(error))
    /\ pc' = "done"
    /\ UNCHANGED <<ComposeFrame, procs, error, clips, composed, outputPath>>

\* ---------------------------------------------------------------- Spec
Next ==
    \/ Receive
    \/ Validate
    \/ Prologue
    \/ SortAndDefault
    \/ LegacyPrologue
    \/ ProcessSegment
    \/ AfterLoop
    \/ \E i \in 1..Len(procs) : EngineWrites(i)
    \/ \E i \in 1..Len(procs) : EngineEnd(i)
    \/ \E i \in 1..Len(procs) : EngineError(i)
    \/ \E t \in timers : TimerFires(t)
    \/ Tick
    \/ SendFinal
    \/ Catch
    \/ Finally
    \/ ReceiveCompose
    \/ InitializeTable
    \/ CreateFolder
    \/ CreateRecord
    \/ Transform
    \/ TransformFailed
    \/ CheckClipsAndCompose
    \/ \E i \in 1..Len(procs) : TrimConcatWrites(i)
    \/ \E i \in 1..Len(procs) : TrimConcatEnd(i)
    \/ \E i \in 1..Len(procs) : TrimConcatError(i)
    \/ RecordComposed
    \/ ComposeFailed
    \/ Complete
    \/ GeneralCatch

Spec == Init /\ [][Next]_vars

\* ===================================================================
\* Concurrent /single_api requests and their scratch directories
\* ===================================================================
\* Request r is followed through the steps of its handler that touch the
\* file system; the handlers interleave at their awaits.
mainVars == <<variant, pc, procs, timers, now, error, responses, seqVars, composeVars,
              sweep, appenders, schedVars, initers, command>>

\* the file at path p was written by request r
WrittenBy(fs, p, r) ==
    [q \in DOMAIN fs \cup {p} |-> IF q = p
                                  THEN (IF p \in DOMAIN fs THEN fs[p] ELSE {}) \cup {r}
                                  ELSE fs[q]]

\* const tempDir: per request in the version behind the schema, one shared
\* directory in the earlier version
TempDirOf(v, id) == IF v = "celebrate" THEN TempDir(id) ELSE SharedTempDir

\* processId, tempDir and the creation of the directory
ScratchStart(r) ==
    /\ scratchReqs[r].pc = "new"
    /\ \E v \in Variants :
          LET id == IF v = "celebrate" THEN scratchUuids + 1 ELSE 0
          IN  /\ scratchUuids' = IF v = "celebrate" THEN scratchUuids + 1
                                 ELSE scratchUuids
              /\ scratchReqs' = [scratchReqs EXCEPT ![r].variant = v,
                                                    ![r].pc = "loop",
                                                    ![r].tempDir = TempDirOf(v, id)]
              /\ scratchDirs' = scratchDirs \cup {TempDirOf(v, id)}
    /\ UNCHANGED <<mainVars, scratchFiles>>

\* a video segment: the decoded file video_<uuid>.mp4
ScratchVideo(r) ==
    /\ scratchReqs[r].pc = "loop"
    /\ scratchReqs[r].segments < MaxScratchSegs
    /\ scratchReqs[r].tempDir \in scratchDirs
    /\ scratchUuids' = scratchUuids + 1
    /\ scratchFiles' = WrittenBy(scratchFiles,
                          InDir(scratchReqs[r].tempDir, VideoFile(scratchUuids + 1)), r)
    /\ scratchReqs' = [scratchReqs EXCEPT ![r].segments = @ + 1]
    /\ UNCHANGED <<mainVars, scratchDirs>>

\* a narration segment: the decoded file audio_<uuid>.mp3 and the overlay's
\* output segment_<segmentIndex++>.mp4
ScratchTts(r) ==
    /\ scratchReqs[r].pc = "loop"
    /\ scratchReqs[r].segments < MaxScratchSegs
    /\ scratchReqs[r].tempDir \in scratchDirs
    /\ scratchUuids' = scratchUuids + 1
    /\ scratchFiles' =
          WrittenBy(WrittenBy(scratchFiles,
                       InDir(scratchReqs[r].tempDir, AudioFile(scratchUuids + 1)), r),
                    InDir(scratchReqs[r].tempDir,
                          SegmentFile(scratchReqs[r].segmentIndex)), r)
    /\ scratchReqs' = [scratchReqs EXCEPT
                          ![r].segments = @ + 1,
                          ![r].segmentIndex = NextSegmentIndex(@)]
    /\ UNCHANGED <<mainVars, scratchDirs>>

\* after the loop: concat_list.txt and final_output_<uuid>.mp4
ScratchConcat(r) ==
    /\ scratchReqs[r].pc = "loop"
    /\ scratchReqs[r].segmentIndex > 0
    /\ scratchReqs[r].tempDir \in scratchDirs
    /\ scratchUuids' = scratchUuids + 1
    /\ scratchFiles' =
          WrittenBy(WrittenBy(scratchFiles,
                       InDir(scratchReqs[r].tempDir, ConcatListFile), r),
                    InDir(scratchReqs[r].tempDir,
                          FinalOutputFile(scratchUuids + 1)), r)
    /\ scratchReqs' = [scratchReqs EXCEPT ![r].pc = "sent"]
    /\ UNCHANGED <<mainVars, scratchDirs>>

\* the end of the handler: the version behind the schema removes its
\* directory with everything in it, the earlier version removes nothing
ScratchEnd(r) ==
    /\ scratchReqs[r].pc \in {"loop", "sent"}
    /\ scratchReqs' = [scratchReqs EXCEPT ![r].pc = "done"]
    /\ IF scratchReqs[r].variant = "celebrate"
       THEN /\ scratchDirs' = scratchDirs \ {scratchReqs[r].tempDir}
            /\ scratchFiles' = [q \in {x \in DOMAIN scratchFiles :
                                          x.dir # scratchReqs[r].tempDir} |->
                                  scratchFiles[q]]
       ELSE UNCHANGED <<scratchDirs, scratchFiles>>
    /\ UNCHANGED <<mainVars, scratchUuids>>

NextScratch ==
    \/ \E r \in 1..NumRequests : ScratchStart(r)
    \/ \E r \in 1..NumRequests : ScratchVideo(r)
    \/ \E r \in 1..NumRequests : ScratchTts(r)
    \/ \E r \in 1..NumRequests : ScratchConcat(r)
    \/ \E r \in 1..NumRequests : ScratchEnd(r)

SpecScratch == Init /\ [][NextScratch]_vars

\* ===================================================================
\* The cleanup scheduler and the job store
\* ===================================================================
\* the elements of a finite set of numbers, ascending
RECURSIVE Ascending(_)
Ascending(S) ==
    IF S = {} THEN <<>>
    ELSE LET m == CHOOSE x \in S : \A y \in S : x <= y
         IN  <<m>> \o Ascending(S \ {m})

\* .where('expiration_time', '<', now).whereNotNull('video_path')
Expired(row, t) ==
    /\ row.expiration_time # NoValue
    /\ row.expiration_time < t
    /\ row.video_path # NoPath

\* the records a sweep at time t selects
ExpiredRecords(t) ==
    LET ids == Ascending({r \in DOMAIN rows : Expired(rows[r], t)})
    IN  [k \in 1..Len(ids) |-> [id |-> ids[k], video_path |-> rows[ids[k]].video_path]]

\* an update that clears the path and leaves the expiration
SweepUpdateKeepsExpiration(row) == [row EXCEPT !.video_path = NoPath]

\* an update that also puts the job back to in_progress
SweepUpdateResetsStatus(row) ==
    [row EXCEPT !.video_path = NoPath, !.expiration_time = NoValue,
                !.status = "in_progress"]

\* an update that changes nothing
SweepUpdateNothing(row) == row

\* an update without its where clause
UpdatedIdsAll(record) == DOMAIN rows

\* .where({ id: record.id }): the records the update of the loop goes to
UpdatedIds(record) == {record.id}

\* .update({ video_path: null, expiration_time: null })
SweepUpdate(row) == [row EXCEPT !.video_path = NoPath, !.expiration_time = NoValue]

\* the scheduler starts a sweep, right away or one interval later (an
\* interval goes by only while no handler step is due): the table is
\* initialised and the expired records are selected; a failure of either
\* ends the sweep
SweepStart ==
    /\ sweep.pc = "idle"
    /\ \E dt \in {0, CleanupIntervalMs} :
          /\ dt > 0 => pc \in {"idle", "await_compose", "done"}
          /\ now + dt <= MaxSweeps * CleanupIntervalMs
          /\ now' = now + dt
          /\ \E initOk \in BOOLEAN, selectOk \in BOOLEAN :
                /\ tableExists' = (tableExists \/ initOk)
                /\ sweep' = IF initOk /\ selectOk /\ ExpiredRecords(now + dt) # <<>>
                            THEN [pc |-> "cleaning",
                                  expiredRecords |-> ExpiredRecords(now + dt)]
                            ELSE [pc |-> "idle", expiredRecords |-> <<>>]
    /\ UNCHANGED <<variant, pc, procs, timers, error, responses, seqVars,
                   sideVars, timeline, clips, rows, requestId, folders,
                   composed, outputPath>>

\* one iteration of for (const record of expiredRecords): the file is
\* unlinked if it is there (a failure is logged), then the record is
\* cleared; a failure of that update ends the sweep
SweepRecord ==
    /\ sweep.pc = "cleaning"
    /\ LET record == Head(sweep.expiredRecords)
           rest == Tail(sweep.expiredRecords)
       IN  \E unlinkOk \in BOOLEAN, dbOk \in BOOLEAN :
              /\ composed' = IF unlinkOk
                             THEN [q \in DOMAIN composed \ {record.video_path} |->
                                     composed[q]]
                             ELSE composed
              /\ IF dbOk
                 THEN /\ rows' = [r \in DOMAIN rows |->
                                    IF r \in UpdatedIds(record) THEN SweepUpdate(rows[r])
                                    ELSE rows[r]]
                      /\ sweep' = [sweep EXCEPT
                                     !.expiredRecords = rest,
                                     !.pc = IF rest = <<>> THEN "idle" ELSE "cleaning"]
                 ELSE /\ UNCHANGED rows
                      /\ sweep' = [sweep EXCEPT !.expiredRecords = <<>>, !.pc = "idle"]
    /\ UNCHANGED <<variant, pc, procs, timers, now, error, responses, seqVars,
                   sideVars, timeline, clips, tableExists, requestId, folders,
                   outputPath>>

\* a compose request and the scheduler
NextJobs ==
    \/ ReceiveCompose
    \/ InitializeTable
    \/ CreateFolder
    \/ CreateRecord
    \/ Transform
    \/ TransformFailed
    \/ CheckClipsAndCompose
    \/ \E i \in 1..Len(procs) : TrimConcatWrites(i)
    \/ \E i \in 1..Len(procs) : TrimConcatEnd(i)
    \/ \E i \in 1..Len(procs) : TrimConcatError(i)
    \/ RecordComposed
    \/ ComposeFailed
    \/ Complete
    \/ GeneralCatch
    \/ Tick
    \/ SweepStart
    \/ SweepRecord

SpecJobs == Init /\ [][NextJobs]_vars

\* ===================================================================
\* Concurrent calls of updateVideoCompositionProgress on one job
\* ===================================================================
\* Each call is followed through its two awaits: the read of getCurrentSteps
\* and the update. The calls interleave at those awaits.
AppendedNames == {"transform_clips_success", "compose_video_success"}
AppendedSteps == UNION {[1..k -> AppendedNames] : k \in 1..MaxAppend}
AppendJob == 1

appendFrame == <<variant, pc, procs, timers, now, error, responses, seqVars,
                 scratchVars, schedVars, initers, command, sweep, timeline, clips,
                 tableExists,
                 requestId, folders, composed, outputPath>>

\* the record of the job exists before anything is appended to it
AppendCreate ==
    /\ rows = <<>>
    /\ rows' = createVideoCompositionRecord(AppendJob, "in_progress",
                  <<"record_creation_success">>, FolderPath(AppendJob))
    /\ UNCHANGED <<appendFrame, appenders>>

\* updateVideoCompositionProgress(id, { steps }) is called
AppendCall(c) ==
    /\ AppendJob \in DOMAIN rows
    /\ appenders[c].pc = "idle"
    /\ \E st \in AppendedSteps :
          appenders' = [appenders EXCEPT ![c].pc = "called", ![c].steps = st]
    /\ UNCHANGED <<appendFrame, rows>>

\* const currentSteps = await getCurrentSteps(id)
AppendRead(c) ==
    /\ appenders[c].pc = "called"
    /\ \E readOk \in BOOLEAN :
          appenders' = [appenders EXCEPT
                           ![c].pc = "read",
                           ![c].readOk = readOk,
                           ![c].currentSteps = getCurrentSteps(AppendJob, readOk)]
    /\ UNCHANGED <<appendFrame, rows>>

\* await db('video_compositions').where({ id }).update(updateData)
AppendWrite(c) ==
    /\ appenders[c].pc = "read"
    /\ \E dbOk \in BOOLEAN :
          IF dbOk
          THEN /\ rows' = RowsAfterUpdate(AppendJob,
                             Updates("", appenders[c].steps, NoPath, NoValue),
                             MergedSteps(AppendJob, appenders[c].currentSteps,
                                         Updates("", appenders[c].steps, NoPath, NoValue)))
               /\ appenders' = [appenders EXCEPT ![c].pc = "written"]
          ELSE /\ UNCHANGED rows
               /\ appenders' = [appenders EXCEPT ![c].pc = "thrown"]
    /\ UNCHANGED appendFrame

NextAppend ==
    \/ AppendCreate
    \/ \E c \in Appenders : AppendCall(c)
    \/ \E c \in Appenders : AppendRead(c)
    \/ \E c \in Appenders : AppendWrite(c)

SpecAppend == Init /\ [][NextAppend]_vars

\* ===================================================================
\* transformToConcatClips over the timelines of a few items
\* ===================================================================
\* the longest timeline that is flattened
MaxFlatten == 3

FlattenTimelines == UNION {[1..k -> TimelineItems] : k \in 0..MaxFlatten}

\* a sort of the caller's array itself
TimelineAfterFlattenSortedInPlace(tl) == SortByStartTime(tl)

\* [...timeline].sort(...): the copy is sorted, the caller's array is as it
\* was
TimelineAfterFlatten(tl) == tl

\* concatData = transformToConcatClips(assets, timeline, globalSettings) for
\* a timeline tl as submitted
FlattenCall ==
    /\ pc = "idle"
    /\ \E tl \in FlattenTimelines :
          /\ reqData' = tl
          /\ timeline' = TimelineAfterFlatten(tl)
          /\ clips' = transformToConcatClips(AssetTable, tl)
    /\ pc' = "flattened"
    /\ UNCHANGED <<variant, procs, timers, now, error, responses, reqType, data,
                   uuidCount, processId, dirExists, files, currentVideoPath,
                   segmentFiles, segmentIndex, cursor, cleanupLog, tableExists,
                   rows, requestId, folders, composed, outputPath, sideVars, sweep>>

\* an index that is 0 for every clip
StreamIndexZero(i) == 0

\* forEach((clip, index) => ...) and for (let i = 0; ...): the index of the
\* i-th clip counts from 0
StreamIndex(i) == i - 1

\* [${index}:v]trim=start=..:duration=..,setpts=PTS-STARTPTS[v${index}] and
\* [${index}:a]atrim=start=..:duration=..,asetpts=PTS-STARTPTS[a${index}]
TrimFilter(stream, index, clip) ==
    [name |-> IF stream = "v" THEN "trim" ELSE "atrim",
     from |-> [input |-> index, stream |-> stream],
     start |-> clip.start,
     duration |-> clip.duration,
     then |-> IF stream = "v" THEN "setpts=PTS-STARTPTS" ELSE "asetpts=PTS-STARTPTS",
     to |-> <<[label |-> stream, index |-> index]>>,
     labels |-> <<>>, n |-> 0, v |-> 0, a |-> 0]

\* filterInputs: two entries per clip, the video trim then the audio trim
FilterInputs(cs) ==
    [k \in 1..(2 * Len(cs)) |->
        TrimFilter(IF k % 2 = 1 THEN "v" ELSE "a",
                   StreamIndex((k + 1) \div 2), cs[(k + 1) \div 2])]

\* videoStreams + audioStreams: every [v<i>], then every [a<i>]
ConcatLabels(cs) ==
    [k \in 1..(2 * Len(cs)) |->
        IF k <= Len(cs)
        THEN [label |-> "v", index |-> StreamIndex(k)]
        ELSE [label |-> "a", index |-> StreamIndex(k - Len(cs))]]

\* ${videoStreams}${audioStreams}concat=n=${clips.length}:v=1:a=1[outv][outa]
ConcatFilter(cs) ==
    [name |-> "concat",
     from |-> [input |-> NoValue, stream |-> ""],
     start |-> NoValue, duration |-> NoValue, then |-> "",
     to |-> <<[label |-> "outv", index |-> NoValue], [label |-> "outa", index |-> NoValue]>>,
     labels |-> ConcatLabels(cs), n |-> Len(cs), v |-> 1, a |-> 1]

\* the command of composeVideo: one input per clip in the order of the
\* clips, [...filterInputs, concatFilter].join(';'), and the two mapped
\* outputs
ComposeCommand(cs) ==
    [inputs |-> [i \in 1..Len(cs) |-> cs[i].src],
     filter |-> Append(FilterInputs(cs), ConcatFilter(cs)),
     maps |-> <<"outv", "outa">>]

\* composeVideo(concatData) up to the launch of the engine, for the clips of
\* the flattened timeline; it is called only when there is a clip
BuildCommand ==
    /\ pc = "flattened"
    /\ ~NoClips(clips)
    /\ command' = ComposeCommand(clips)
    /\ pc' = "built"
    /\ UNCHANGED <<variant, procs, timers, now, error, responses, seqVars,
                   composeVars, scratchVars, appenders, schedVars, initers, sweep>>

NextFlatten ==
    \/ FlattenCall
    \/ BuildCommand

SpecFlatten == Init /\ [][NextFlatten]_vars

\* ===================================================================
\* Concurrent calls of initializeVideoCompositionTable
\* ===================================================================
\* Each call is followed through its two awaits: hasTable and, when that
\* answered false, createTable. The calls interleave at those awaits.
initFrame == <<variant, pc, procs, timers, now, error, responses, seqVars,
               scratchVars, appenders, schedVars, command, sweep, timeline, clips, rows,
               requestId, folders, composed, outputPath>>

\* CREATE TABLE on a table that is there: the statement is refused
MsgTableExists == "table video_compositions already exists"

\* initializeVideoCompositionTable() is called
InitCall(c) ==
    /\ initers[c].pc = "idle"
    /\ initers' = [initers EXCEPT ![c].pc = "called"]
    /\ UNCHANGED <<initFrame, tableExists>>

\* db.schema.createTable without IF NOT EXISTS: refused when the table is
\* there
CreateRefused(there) == there

\* const exists = await db.schema.hasTable('video_compositions'); a
\* rejection is logged and thrown again
InitHasTable(c) ==
    /\ initers[c].pc = "called"
    /\ \E dbOk \in BOOLEAN :
          initers' = IF dbOk
                     THEN [initers EXCEPT
                             ![c].pc = IF tableExists THEN "returned" ELSE "creating",
                             ![c].exists = tableExists]
                     ELSE [initers EXCEPT ![c].pc = "thrown", ![c].error = MsgDb]
    /\ UNCHANGED <<initFrame, tableExists>>

\* if (!exists) await db.schema.createTable(...); a rejection is logged and
\* thrown again
InitCreateTable(c) ==
    /\ initers[c].pc = "creating"
    /\ \E dbOk \in BOOLEAN :
          IF CreateRefused(tableExists)
          THEN /\ initers' = [initers EXCEPT
                                ![c].pc = "thrown", ![c].error = MsgTableExists]
               /\ UNCHANGED tableExists
          ELSE IF dbOk
               THEN /\ initers' = [initers EXCEPT
                                     ![c].pc = "returned", ![c].created = TRUE]
                    /\ tableExists' = TRUE
               ELSE /\ initers' = [initers EXCEPT
                                     ![c].pc = "thrown", ![c].error = MsgDb]
                    /\ UNCHANGED tableExists
    /\ UNCHANGED initFrame

\* the caller calls again later: the next request, the next sweep
InitAgain(c) ==
    /\ initers[c].pc \in {"returned", "thrown"}
    /\ tableExists
    /\ initers[c].exists = FALSE
    /\ initers' = [initers EXCEPT ![c].pc = "called", ![c].error = ""]
    /\ UNCHANGED <<initFrame, tableExists>>

NextInit ==
    \/ \E c \in InitCallers : InitCall(c)
    \/ \E c \in InitCallers : InitHasTable(c)
    \/ \E c \in InitCallers : InitCreateTable(c)
    \/ \E c \in InitCallers : InitAgain(c)

SpecInit == Init /\ [][NextInit]_vars

\* ===================================================================
\* The scheduler beside concurrent compose requests
\* ===================================================================
\* Several compose requests are followed through the steps of their handler
\* that touch the table and data/composedVideos; beside them the scheduler
\* starts a call of cleanExpiredVideos right away and one per interval,
\* whether or not the earlier calls have returned.
MaxJobs == 2

\* how many milliseconds apart the Date.now() of two composeVideo calls of
\* one instant of the model can be
MaxStampMs == 1

\* for how many intervals requests keep arriving
MaxArrival == 0

\* how many calls of cleanExpiredVideos are followed at once
MaxActiveRuns == 2

\* what the engine of job j writes to its output
Artifact(j) == [tag |-> "trimconcat", job |-> j]

\* what the scheduler and the requests beside it leave alone
sweepFrame == <<variant, pc, procs, timers, error, responses, seqVars,
                scratchVars, appenders, initers, command, sweep, timeline, clips,
                requestId,
                folders, outputPath>>

\* steps 1 to 5 of a request and composeVideo up to its await: the table,
\* the job id, the record in_progress, the step transform_clips_success, and
\* the output named after Date.now(). Requests arrive during the first
\* MaxArrival intervals
JobStart ==
    /\ Len(jobs) < MaxJobs
    /\ now <= MaxArrival * CleanupIntervalMs
    /\ LET id == Len(jobs) + 1
           created == createVideoCompositionRecord(id, "in_progress",
                          <<"record_creation_success">>, FolderPath(id))
           transformed == Updates("", <<"transform_clips_success">>, NoPath, NoValue)
       IN  /\ rows' = [created EXCEPT
                         ![id].steps = MergedSteps(id, created[id].steps, transformed)]
           /\ \E ms \in 0..MaxStampMs :
                 jobs' = Append(jobs, [pc |-> "composing",
                                       outputPath |-> ComposedFile(now + ms)])
    /\ tableExists' = TRUE
    /\ UNCHANGED <<sweepFrame, now, composed, runs, sched>>

\* 'end': the output is on disk and the step compose_video_success recorded
JobEngineEnd(j) ==
    /\ jobs[j].pc = "composing"
    /\ composed' = [q \in DOMAIN composed \cup {jobs[j].outputPath} |->
                      IF q = jobs[j].outputPath THEN Artifact(j) ELSE composed[q]]
    /\ rows' = updateVideoCompositionProgress(j,
                   Updates("", <<"compose_video_success">>, NoPath, NoValue), TRUE)
    /\ jobs' = [jobs EXCEPT ![j].pc = "composed"]
    /\ UNCHANGED <<sweepFrame, now, tableExists, runs, sched>>

\* 'error': the catch of step 6 marks the job failed
JobEngineError(j) ==
    /\ jobs[j].pc = "composing"
    /\ rows' = updateVideoCompositionProgress(j, ComposeFailureUpdate, TRUE)
    /\ jobs' = [jobs EXCEPT ![j].pc = "done"]
    /\ UNCHANGED <<sweepFrame, now, tableExists, composed, runs, sched>>

\* step 7: completed, with the output path and the expiration one hour on; a
\* failure of the update is only logged
JobComplete(j) ==
    /\ jobs[j].pc = "composed"
    /\ \E dbOk \in BOOLEAN :
          rows' = IF dbOk
                  THEN updateVideoCompositionProgress(j,
                           Updates("completed", <<"video_composed">>,
                                   jobs[j].outputPath, now + ExpirationMs), TRUE)
                  ELSE rows
    /\ jobs' = [jobs EXCEPT ![j].pc = "done"]
    /\ UNCHANGED <<sweepFrame, now, tableExists, composed, runs, sched>>

\* a call of cleanExpiredVideos that has just been made: it knows the last
\* call that returned before it when no other call is under way
NewRun ==
    [pc |-> "selecting", expiredRecords |-> <<>>, selectedAt |-> 0,
     prev |-> IF DOMAIN runs = {} THEN sched.last
              ELSE [outcome |-> "overlap", selectedAt |-> 0]]

\* the calls under way are told apart by a number that is free again once
\* the call has returned
FreeRun == CHOOSE n \in 1..MaxActiveRuns : n \notin DOMAIN runs

\* the calls under way and one more
Called == [n \in DOMAIN runs \cup {FreeRun} |-> IF n = FreeRun THEN NewRun ELSE runs[n]]

\* the calls under way without call k
Returned(k) == [n \in DOMAIN runs \ {k} |-> runs[n]]

\* an error of a call that leaves the call and ends the scheduler
OutcomeOfErrorFatal == "fatal"

\* catch (error) of cleanExpiredVideos: the error is logged and the call
\* returns
OutcomeOfError == "caught"

\* the scheduler after a call returned with an outcome
AfterReturn(outcome, t) ==
    [sched EXCEPT !.last = [outcome |-> outcome, selectedAt |-> t],
                  !.started = (outcome # "fatal")]

\* startVideoCleanupScheduler: one call right away, and the interval armed
startVideoCleanupScheduler ==
    /\ ~sched.started
    /\ sched.sweeps = 0
    /\ sched' = [sched EXCEPT !.started = TRUE, !.sweeps = 1]
    /\ runs' = Called
    /\ UNCHANGED <<sweepFrame, now, tableExists, rows, composed, jobs>>

\* the callback of setInterval: an interval has gone by and one more call is
\* made, whatever the earlier calls are doing
IntervalTick ==
    /\ sched.started
    /\ now + CleanupIntervalMs <= MaxSweeps * CleanupIntervalMs
    /\ Cardinality(DOMAIN runs) < MaxActiveRuns
    /\ now' = now + CleanupIntervalMs
    /\ sched' = [sched EXCEPT !.ticks = @ + 1, !.sweeps = @ + 1]
    /\ runs' = Called
    /\ UNCHANGED <<sweepFrame, tableExists, rows, composed, jobs>>

\* the callback of setInterval once the clock has reached the last instant
\* that is followed: the calls go on, at that instant
LateTick ==
    /\ sched.started
    /\ now + CleanupIntervalMs > MaxSweeps * CleanupIntervalMs
    /\ Cardinality(DOMAIN runs) < MaxActiveRuns
    /\ runs' = Called
    /\ UNCHANGED <<sweepFrame, now, tableExists, rows, composed, jobs, sched>>

\* call k initialises the table and selects the expired records; with none
\* it returns, and a failure of either is caught
CleanSelect(k) ==
    /\ runs[k].pc = "selecting"
    /\ \E initOk \in BOOLEAN, selectOk \in BOOLEAN :
          /\ tableExists' = (tableExists \/ initOk)
          /\ IF initOk /\ selectOk
             THEN IF ExpiredRecords(now) = <<>>
                  THEN /\ runs' = Returned(k)
                       /\ sched' = AfterReturn("none_expired", now)
                  ELSE /\ runs' = [runs EXCEPT
                                     ![k].pc = "cleaning",
                                     ![k].expiredRecords = ExpiredRecords(now),
                                     ![k].selectedAt = now]
                       /\ UNCHANGED sched
             ELSE /\ runs' = Returned(k)
                  /\ sched' = AfterReturn(OutcomeOfError, now)
    /\ UNCHANGED <<sweepFrame, now, rows, composed, jobs>>

\* a file error that ends the loop
RemainingAfterUnlinkStops(unlinkOk, rest) == IF unlinkOk THEN rest ELSE <<>>

\* catch (fileError): the error is logged and the loop goes on with the
\* update of the record and the records after it
RemainingAfterUnlink(unlinkOk, rest) == rest

\* one iteration of the loop of call k: the file is unlinked if it is there
\* (a failure is logged), then the record is cleared; a failure of that
\* update is caught and the call returns
CleanRecord(k) ==
    /\ runs[k].pc = "cleaning"
    /\ \E unlinkOk \in BOOLEAN, dbOk \in BOOLEAN :
          LET record == Head(runs[k].expiredRecords)
              rest == RemainingAfterUnlink(unlinkOk, Tail(runs[k].expiredRecords))
          IN  /\ composed' = IF unlinkOk
                             THEN [q \in DOMAIN composed \ {record.video_path} |->
                                     composed[q]]
                             ELSE composed
              /\ IF dbOk
                 THEN /\ rows' = [r \in DOMAIN rows |->
                                    IF r \in UpdatedIds(record) THEN SweepUpdate(rows[r])
                                    ELSE rows[r]]
                      /\ IF rest = <<>>
                         THEN /\ runs' = Returned(k)
                              /\ sched' = AfterReturn("completed", runs[k].selectedAt)
                         ELSE /\ runs' = [runs EXCEPT ![k].expiredRecords = rest]
                              /\ UNCHANGED sched
                 ELSE /\ UNCHANGED rows
                      /\ runs' = Returned(k)
                      /\ sched' = AfterReturn(OutcomeOfError, runs[k].selectedAt)
    /\ UNCHANGED <<sweepFrame, now, tableExists, jobs>>

\* compose requests and the scheduler
NextSweeps ==
    \/ JobStart
    \/ \E j \in 1..Len(jobs) : JobEngineEnd(j)
    \/ \E j \in 1..Len(jobs) : JobEngineError(j)
    \/ \E j \in 1..Len(jobs) : JobComplete(j)
    \/ startVideoCleanupScheduler
    \/ IntervalTick
    \/ \E k \in DOMAIN runs : CleanSelect(k)
    \/ \E k \in DOMAIN runs : CleanRecord(k)

SpecSweeps == Init /\ [][NextSweeps]_vars

\* the scheduler with its ticks going on for good
NextReclaim ==
    \/ NextSweeps
    \/ LateTick

\* call k clears the record of job id: the UPDATE goes through
ClearsRecord(k, id) ==
    /\ CleanRecord(k)
    /\ Head(runs[k].expiredRecords).id = id
    /\ rows'[id] = SweepUpdate(rows[id])

\* call k gets its selection: the table is there and the SELECT goes through
Selects(k) ==
    /\ CleanSelect(k)
    /\ \/ k \in DOMAIN runs' /\ runs'[k].pc = "cleaning"
       \/ sched'.last.outcome = "none_expired"

\* the interval keeps firing, every call goes on, and the operations on the
\* store succeed in the end
FairReclaim ==
    /\ WF_vars(IntervalTick)
    /\ WF_vars(LateTick)
    /\ SF_vars(\E k \in DOMAIN runs : Selects(k))
    /\ \A id \in 1..MaxJobs : SF_vars(\E k \in DOMAIN runs : ClearsRecord(k, id))

SpecReclaim == Init /\ [][NextReclaim]_vars /\ FairReclaim

\* ===================================================================
\* Properties
\* ===================================================================
\* the request is served by the version of the route behind the schema
Current == variant = "celebrate"

\* the handler is between the entry of the loop and the end of the try block
InLoop == pc \in {"loop", "await_overlay"}
Processing == pc \in {"loop", "await_overlay", "await_concat", "send"}

\* index of the last video segment among s[1..n], 0 if there is none
RECURSIVE LastVideoIndex(_, _)
LastVideoIndex(s, n) ==
    IF n = 0 THEN 0
    ELSE IF s[n].type = "video" THEN n ELSE LastVideoIndex(s, n - 1)

\* the indices of the narration segments of s, ascending
RECURSIVE TtsIndices(_, _)
TtsIndices(s, n) ==
    IF n = 0 THEN <<>>
    ELSE IF s[n].type = "tts" THEN Append(TtsIndices(s, n - 1), n)
         ELSE TtsIndices(s, n - 1)

\* the content the active video must have once s[1..n] are processed
ExpectedActive(s, n) ==
    IF LastVideoIndex(s, n) = 0 THEN DefaultContent
    ELSE Decode(s[LastVideoIndex(s, n)].base_64)

OverlayProcs == {i \in 1..Len(procs) : procs[i].kind = "overlay"}

\* C1: while the sorted segments are folded, the active video is the decoded
\* file of the most recent video segment among those already processed, and
\* the default video if there is none: every video segment replaces it (the
\* first one too) and a narration segment leaves it alone.
C1_ActiveVideo ==
    (Current /\ InLoop) =>
        LET j == LastVideoIndex(data, cursor - 1)
        IN  /\ j = 0 => currentVideoPath = DefaultVideoPath
            /\ j > 0 => /\ currentVideoPath.kind = "video"
                        /\ Exists(currentVideoPath)
                        /\ files[currentVideoPath] = Decode(data[j].base_64)
            /\ pc = "await_overlay" =>
                  /\ data[cursor].type = "tts"
                  /\ procs[Len(procs)].video = currentVideoPath

\* two video segments were processed, the second replaced the first, and a
\* narration segment that follows is being overlaid
C1_Witness ==
    /\ Current
    /\ pc = "await_overlay"
    /\ \E j1, j2 \in 1..(cursor - 1) :
          /\ j1 < j2
          /\ data[j1].type = "video"
          /\ data[j2].type = "video"
          /\ files[currentVideoPath] = Decode(data[j2].base_64)

\* the request was answered with the final artifact
Succeeded == Len(responses) >= 1 /\ responses[1].status = 200

\* the outputs a successful run over s concatenates: one per narration
\* segment, the overlay of the video active at that point and its audio
ExpectedOutputs(s) ==
    LET tts == TtsIndices(s, Len(s))
    IN  [k \in 1..Len(tts) |->
            Overlay(ExpectedActive(s, tts[k]), Decode(s[tts[k]].base_64))]

\* C2: on a successful run exactly one overlay is invoked per narration
\* segment, on the video active at that point and that segment's audio; the
\* outputs are listed in processing order and the one concatenation receives
\* exactly those outputs, each once, in that order.
C2_OverlayPerNarration ==
    (Current /\ Succeeded) =>
        LET n == Len(TtsIndices(data, Len(data)))
        IN  /\ Len(procs) = n + 1
            /\ \A k \in 1..n : /\ procs[k].kind = "overlay"
                               /\ procs[k].out = SegmentFile(k - 1)
            /\ segmentFiles = [k \in 1..n |-> SegmentFile(k - 1)]
            /\ procs[n + 1].kind = "concat"
            /\ procs[n + 1].list = segmentFiles
            /\ responses = <<[status |-> 200, body |-> Concat(ExpectedOutputs(data))]>>

\* the scenario [video V1, tts A1, tts A2]: one artifact of V1+A1 then V1+A2
C2_Witness ==
    /\ Current
    /\ Succeeded
    /\ Len(data) = 3
    /\ data[1].type = "video" /\ data[2].type = "tts" /\ data[3].type = "tts"
    /\ responses[1].body =
          Concat(<<Overlay(Decode(data[1].base_64), Decode(data[2].base_64)),
                   Overlay(Decode(data[1].base_64), Decode(data[3].base_64))>>)

\* s has a narration segment before its first video segment
LeadingNarration(s) ==
    \E i \in 1..Len(s) : s[i].type = "tts" /\ LastVideoIndex(s, i) = 0

\* C3: narration segments that precede the first video segment (or come with
\* no video segment at all) are overlaid on the default video, and such a
\* request is never refused as invalid: every overlay launched for one of
\* them has the default video as its video input, the request gets no 400,
\* and when it succeeds each of them has its overlay in the artifact.
C3_LeadingNarrationOnDefault ==
    (Current /\ SchemaAccepts(reqType, reqData) /\ LeadingNarration(SortById(reqData))) =>
        /\ \A r \in 1..Len(responses) : responses[r].status # 400
        /\ Processing =>
              LET tts == TtsIndices(data, Len(data))
              IN  \A k \in OverlayProcs :
                     LastVideoIndex(data, tts[k]) = 0 =>
                         /\ procs[k].video = DefaultVideoPath
                         /\ procs[k].state = "ended" =>
                               files[procs[k].out] =
                                  Overlay(DefaultContent, Decode(data[tts[k]].base_64))
        /\ Succeeded =>
              LET tts == TtsIndices(SortById(reqData), Len(reqData))
              IN  \A k \in 1..Len(tts) :
                     LastVideoIndex(SortById(reqData), tts[k]) = 0 =>
                         responses[1].body.parts[k] =
                            Overlay(DefaultContent,
                                    Decode(SortById(reqData)[tts[k]].base_64))

\* a successful request whose two narration segments precede its one video
C3_Witness ==
    /\ Current
    /\ Succeeded
    /\ Len(data) = 3
    /\ data[1].type = "tts" /\ data[2].type = "tts" /\ data[3].type = "video"
    /\ procs[1].video = DefaultVideoPath /\ procs[2].video = DefaultVideoPath

\* s is r ordered by id, entries with equal ids in the order they have in r
StableSortOf(s, r) ==
    /\ Len(s) = Len(r)
    /\ \A i, j \in 1..Len(s) : i < j => s[i].id <= s[j].id
    /\ \A x \in {r[i] : i \in 1..Len(r)} :
          Cardinality({i \in 1..Len(s) : s[i] = x}) =
          Cardinality({i \in 1..Len(r) : r[i] = x})
    /\ \A k \in Ids :
          SelectSeq(s, LAMBDA x : x.id = k) = SelectSeq(r, LAMBDA x : x.id = k)

\* C4: the sequence the handler processes is the submitted collection sorted
\* by id ascending: a permutation of it, in key order, in which entries with
\* equal keys keep the order in which they were submitted.
C4_StableSort ==
    (Current /\ Processing) => StableSortOf(data, reqData)

\* three entries submitted out of order, two of them with the same key
C4_Witness ==
    /\ Current
    /\ Processing
    /\ Len(reqData) = 3
    /\ reqData[1].id > reqData[2].id
    /\ reqData[1].id = reqData[3].id
    /\ data # reqData

\* the error an overlay invocation was rejected with
RejectionMessage(p) ==
    IF p.promise = "rejected_timeout" THEN MsgOverlayTimeout ELSE MsgEngine

FailedOverlays ==
    {i \in OverlayProcs : procs[i].promise \in {"rejected_error", "rejected_timeout"}}

\* C5: when an overlay invocation fails (engine error or timeout) the request
\* fails with that error: the loop stops at that segment, nothing is launched
\* after it (no later overlay, no concatenation), its output is not listed,
\* and the only response is the 500 carrying that error, never an artifact.
C5_FirstOverlayErrorFails ==
    Current =>
        \A i \in FailedOverlays :
            /\ i = Len(procs)
            /\ pc \in {"catch", "finally", "done"}
            /\ cursor = TtsIndices(data, Len(data))[i]
            /\ Len(segmentFiles) = i - 1
            /\ error = RejectionMessage(procs[i])
            /\ pc = "catch" => responses = <<>>
            /\ pc # "catch" =>
                  responses = <<[status |-> 500,
                                 body |-> ErrorBody(RejectionMessage(procs[i]))]>>

\* the second overlay of a request with a further segment fails on an engine
\* error after the first succeeded, and the handler has ended
C5_Witness ==
    /\ Current
    /\ pc = "done"
    /\ Len(procs) = 2
    /\ procs[1].promise = "resolved"
    /\ procs[2].promise = "rejected_error"
    /\ cursor < Len(data)

\* C6: an overlay whose engine signals neither completion nor error within
\* the 60 s window is failed by the timer: the handler never waits on it
\* beyond the window, the rejection carries the timeout message, which is not
\* the engine's, and the request is answered with it.
C6_OverlayTimeout ==
    Current =>
        \A i \in OverlayProcs :
            /\ procs[i].promise = "pending" =>
                  /\ pc = "await_overlay"
                  /\ now <= procs[i].started + OverlayTimeoutMs
            /\ procs[i].promise = "rejected_timeout" =>
                  /\ now >= procs[i].started + OverlayTimeoutMs
                  /\ error = MsgOverlayTimeout
                  /\ error # MsgEngine
                  /\ pc \in {"catch", "finally", "done"}
                  /\ pc # "catch" =>
                        (Len(responses) = 1 /\ responses[1].status = 500 /\
                         responses[1].body = ErrorBody(MsgOverlayTimeout))

\* the engine of an overlay is still silent when the window ends, the timer
\* has rejected the promise and the request was answered
C6_Witness ==
    /\ Current
    /\ pc = "done"
    /\ \E i \in OverlayProcs :
          /\ procs[i].promise = "rejected_timeout"
          /\ procs[i].state = "running"
    /\ Len(responses) = 1

\* the wall-clock window the engine invocations of a kind are given
HardTimeout(kind) == IF kind = "overlay" THEN OverlayTimeoutMs ELSE ConcatTimeoutMs

\* C7: every engine invocation is bounded by a hard timeout, the trim and
\* concat invocation of the compose route included: no handler is still
\* waiting on an invocation once its window (60 s for an overlay, 120 s for a
\* concatenation) has gone by.
C7_EveryInvocationBounded ==
    variant # "legacy" =>
        \A i \in 1..Len(procs) :
            procs[i].promise = "pending" =>
                now <= procs[i].started + HardTimeout(procs[i].kind)

\* C8: when the timer of an invocation fires, its engine process is torn
\* down: no invocation rejected by its timer has a process that still runs.
C8_EngineTornDownOnTimeout ==
    variant # "legacy" =>
        \A i \in 1..Len(procs) :
            procs[i].promise = "rejected_timeout" => procs[i].state # "running"

\* the handler has returned
Concluded == pc = "done"

\* C9 as stated: the scratch directory exists while the segments are
\* processed and is absent once the request has concluded, whatever the exit
\* path.
C9_ScratchAbsentOnEveryExit ==
    Current =>
        /\ Processing => dirExists
        /\ Concluded => ~dirExists

\* C9 amended: the scratch directory exists while the segments are processed;
\* every exit path of the handler (success, empty result, error, timeout)
\* goes through the removal; once the request has concluded the directory and
\* its files are gone unless the removal itself failed, and such a failure is
\* logged and swallowed: the response already sent stands.
C9_ScratchRemovedUnlessRemovalFails ==
    Current =>
        /\ Processing => dirExists
        /\ (Concluded /\ processId # 0) => cleanupLog # "none"
        /\ (Concluded /\ cleanupLog # "error") => (~dirExists /\ files = NoFiles)
        /\ cleanupLog # "none" => (Concluded /\ Len(responses) = 1)

\* a request that timed out on an overlay after writing files has concluded
\* and its directory is gone
C9_Witness ==
    /\ Current
    /\ Concluded
    /\ cleanupLog = "cleaned"
    /\ ~dirExists
    /\ \E i \in OverlayProcs : procs[i].promise = "rejected_timeout"

HasUnknownKind(s) == \E i \in 1..Len(s) : s[i].type \notin SegTypes

\* C11: a segment whose kind is neither video nor narration is skipped and
\* is not an error: a request of the right type that has such a segment is
\* never refused by validation, its other segments are processed.
C11_UnknownKindSkipped ==
    (variant \in Variants /\ pc # "idle" /\ reqType = SequentialType
        /\ HasUnknownKind(reqData)) =>
        \A r \in 1..Len(responses) : responses[r].body # ErrorBody(MsgValidation)

\* the requests whose handler has its scratch directory and has not ended
ScratchActive == {r \in 1..NumRequests : scratchReqs[r].pc \in {"loop", "sent"}}

\* C12: two requests never use the same scratch directory: the directories
\* of two requests in progress differ, every file under a request's
\* directory was written by that request alone, and so the removal of its
\* directory takes no file of another request with it.
C12_ScratchNeverShared ==
    /\ \A r1, r2 \in ScratchActive :
          r1 # r2 => scratchReqs[r1].tempDir # scratchReqs[r2].tempDir
    /\ \A p \in DOMAIN scratchFiles : Cardinality(scratchFiles[p]) <= 1
    /\ \A r \in ScratchActive : \A p \in DOMAIN scratchFiles :
          p.dir = scratchReqs[r].tempDir => scratchFiles[p] = {r}

\* the same, when every request is served by the version behind the schema
C12_FreshDirPerRequest ==
    (\A r \in 1..NumRequests : scratchReqs[r].variant = "celebrate") =>
        C12_ScratchNeverShared

\* how far a status is along pending, in_progress, then completed or failed
StatusRank(st) ==
    CASE st = "pending" -> 0
      [] st = "in_progress" -> 1
      [] OTHER -> 2

Terminal(st) == st \in {"completed", "failed"}

\* the steps of s include the step name x
HasStep(s, x) == \E k \in 1..Len(s) : s[k] = x

\* C13: the persisted status of a job only moves forward, whatever the
\* handler and the sweep do and whichever of their updates fail: a record
\* stays in the table, a completed or failed job keeps its status, and no
\* status goes back to an earlier one.
C13_StatusForwardOnly ==
    [][\A id \in DOMAIN rows :
          /\ id \in DOMAIN rows'
          /\ StatusRank(rows'[id].status) >= StatusRank(rows[id].status)
          /\ Terminal(rows[id].status) => (rows'[id].status = rows[id].status)]_vars

\* a completed job whose artifact the sweep has reclaimed
C13_Witness ==
    \E id \in DOMAIN rows :
        /\ rows[id].status = "completed"
        /\ HasStep(rows[id].steps, "video_composed")
        /\ rows[id].video_path = NoPath
        /\ sweep.pc = "idle"

\* s is an initial part of t
IsPrefix(s, t) == Len(s) <= Len(t) /\ SubSeq(t, 1, Len(s)) = s

\* C14: the step log is append-only: whatever an update of a job does, the
\* log persisted before it is an initial part of the log persisted after it.
C14_StepLogAppendOnly ==
    [][\A id \in DOMAIN rows :
          id \in DOMAIN rows' => IsPrefix(rows[id].steps, rows'[id].steps)]_vars

\* C15: appending steps is read-merge-write and not atomic: what a call
\* persists is the log it read with its steps after it, whatever was
\* written to the job between its read and its write, so of two calls that
\* interleave one can erase the steps the other appended.
C15_WritePersistsWhatWasRead ==
    [][\A c \in Appenders :
          (appenders[c].pc = "read" /\ appenders'[c].pc = "written") =>
              rows'[AppendJob].steps = appenders[c].currentSteps \o appenders[c].steps]_vars

\* both calls read the log, both wrote, and the log persisted holds the
\* steps of the second alone: those of the first are lost
C15_Witness ==
    /\ \A c \in Appenders : appenders[c].pc = "written" /\ appenders[c].readOk
    /\ appenders["first"].currentSteps = <<"record_creation_success">>
    /\ appenders["second"].currentSteps = <<"record_creation_success">>
    /\ rows[AppendJob].steps = <<"record_creation_success">> \o appenders["second"].steps
    /\ appenders["first"].steps # appenders["second"].steps


\* C16: in every state of the job store, a job has a video_path only if its
\* status is completed, and its video_path and expiration_time are both set
\* or both null
C16_OutputOnlyWhenCompleted ==
    \A id \in DOMAIN rows :
        /\ rows[id].video_path # NoPath => rows[id].status = "completed"
        /\ (rows[id].video_path = NoPath) <=> (rows[id].expiration_time = NoValue)

\* a completed job that had its output and expiration set together has been
\* reclaimed by the sweep: both are null again
C16_Witness ==
    /\ requestId \in DOMAIN rows
    /\ rows[requestId].status = "completed"
    /\ HasStep(rows[requestId].steps, "video_composed")
    /\ rows[requestId].video_path = NoPath
    /\ rows[requestId].expiration_time = NoValue
    /\ sweep.pc = "idle"

\* the last response of the request
LastResponse == responses[Len(responses)]

\* the compose request has answered and its job record exists
ComposeConcluded ==
    /\ variant = "compose"
    /\ pc = "done"
    /\ responses # <<>>
    /\ requestId \in DOMAIN rows

\* C17: once a compose request has concluded, its job record carries a
\* terminal status that reflects the outcome: completed exactly when the
\* artifact was produced and the success response returned, failed exactly
\* when the request ended in error; no job is left in_progress
C17_TerminalStatusReflectsOutcome ==
    ComposeConcluded =>
        /\ Terminal(rows[requestId].status)
        /\ (rows[requestId].status = "completed") <=>
              (outputPath # NoPath /\ LastResponse.status = 200)
        /\ (rows[requestId].status = "failed") <=> (LastResponse.status >= 400)

\* C18: when the engine has produced the artifact, the request ends with the
\* success response that carries the output path, whichever later update of
\* the job record fails
C18_SuccessSurvivesStoreFailure ==
    (variant = "compose" /\ pc = "done" /\ outputPath # NoPath) =>
        /\ LastResponse.status = 200
        /\ LastResponse.body = [status |-> "success", outputPath |-> outputPath]

\* C19: once the persisted status of a job is failed, no step of the request
\* handler or of the cleanup sweep changes its status, steps, folder_path,
\* video_path or expiration_time
C19_FailedRecordImmutable ==
    [][\A id \in DOMAIN rows :
          rows[id].status = "failed" =>
              (id \in DOMAIN rows' /\ rows'[id] = rows[id])]_vars

\* a job marked failed by the handler, its request answered, with the
\* scheduler one interval or more into its sweeps
C19_Witness ==
    /\ ComposeConcluded
    /\ rows[requestId].status = "failed"
    /\ HasStep(rows[requestId].steps, "compose_video_failure")
    /\ LastResponse.status = 400
    /\ now >= CleanupIntervalMs
    /\ sweep.pc = "idle"

\* C20: in the compose flow an engine invocation is started only when the
\* job record of the request exists with status in_progress; and a request
\* that ended without a record (table initialisation, folder creation or
\* record creation failed) got an error response and never invoked the engine
C20_NoEngineBeforeRecord ==
    /\ []((variant = "compose" /\ pc = "done" /\ requestId \notin DOMAIN rows) =>
             (procs = <<>> /\ LastResponse.status = 500))
    /\ [][(variant = "compose" /\ Len(procs') > Len(procs)) =>
             (/\ requestId \in DOMAIN rows
              /\ rows[requestId].status = "in_progress"
              /\ rows[requestId].folder_path = FolderPath(requestId))]_vars

\* the engine is composing for a request whose record is in_progress
C20_Witness ==
    /\ variant = "compose"
    /\ pc = "await_compose"
    /\ Len(procs) = 1
    /\ procs[1].kind = "trimconcat"
    /\ procs[1].state = "running"
    /\ requestId \in DOMAIN rows
    /\ rows[requestId].status = "in_progress"

\* the last step of the log of job id
LastStep(id) == rows[id].steps[Len(rows[id].steps)]

FailureSteps ==
    {"transform_clips_failure", "no_valid_clips_found", "compose_video_failure",
     "failed_in_general_catch"}

IsFailureStep(x) == x \in FailureSteps

\* the engine of the compose request reported an error
EngineErrored ==
    /\ variant = "compose"
    /\ \E i \in 1..Len(procs) : procs[i].state = "errored"

\* the engine of the compose request is still running although the window
\* of a concatenation has gone by
EngineTimedOut ==
    /\ variant = "compose"
    /\ \E i \in 1..Len(procs) :
          /\ procs[i].state = "running"
          /\ now >= procs[i].started + ConcatTimeoutMs

\* what holds of the job in every state after an engine error: no
\* video_path, no expiration_time, at most one failure step, a 400 at the end
AbortedOnEngineError ==
    EngineErrored =>
        /\ rows[requestId].video_path = NoPath
        /\ rows[requestId].expiration_time = NoValue
        /\ rows[requestId].status \in {"in_progress", "failed"}
        /\ outputPath = NoPath
        /\ rows[requestId].status = "failed" =>
              Len(SelectSeq(rows[requestId].steps, IsFailureStep)) = 1
        /\ pc = "done" => LastResponse.status = 400

\* the catch of step 6 after an engine error: when its update goes through
\* the job is failed, its last step is compose_video_failure and the
\* handler is over
EngineErrorMarksFailed ==
    /\ [](AbortedOnEngineError)
    /\ [][((EngineErrored /\ pc = "c_compose_failed" /\ rows' # rows) =>
             (/\ rows'[requestId].status = "failed"
              /\ rows'[requestId].steps[Len(rows'[requestId].steps)]
                    = "compose_video_failure"
              /\ pc' = "done"))]_vars

\* C22: when the engine invocation of a compose request fails, by an error
\* of the engine or by its timeout, the job is aborted: no video_path or
\* expiration_time is recorded, exactly one failure step is in its log, and
\* once the window of the invocation has gone by the job is failed
C22_EngineFailureAbortsJob ==
    /\ AbortedOnEngineError
    /\ EngineTimedOut => rows[requestId].status = "failed"

\* an engine invocation of the request has failed, by an error of the
\* engine or by its timer
EngineFailure ==
    \E i \in 1..Len(procs) :
        procs[i].promise \in {"rejected_error", "rejected_timeout"}

\* the messages of the refusals for a body or a result with nothing to process
ValidationMessages == {MsgValidation, MsgNoSegments, MsgNoSegmentsLegacy,
                       MsgEmptyData, MsgUnsupported}

\* the answer of a concluded request is in the class of its failure: 4xx
\* with a message for a validation failure, 5xx for an engine failure
AnswerClassMatches ==
    (pc = "done" /\ responses # <<>>) =>
        /\ (variant # "compose" /\ LastResponse.status # 200
              /\ LastResponse.body.error \in ValidationMessages) =>
                 LastResponse.status \in 400..499
        /\ (variant = "compose" /\ LastResponse.status # 200
              /\ LastResponse.body.message = MsgNoClips) =>
                 LastResponse.status \in 400..499
        /\ EngineFailure => LastResponse.status \in 500..599

\* the sequential route answers in the class of the failure
SequentialAnswerClassMatches == (variant # "compose") => AnswerClassMatches

\* C23: in the sequential and in the compose flow alike, a validation
\* failure is answered with a 4xx that carries a message, and an engine or
\* processing failure with a 5xx
C23_ErrorClassOfResponse == AnswerClassMatches

\* the ids of the jobs whose expiration_time is before t and whose
\* video_path is set
ExpiredIds(t) ==
    {id \in DOMAIN rows :
        /\ rows[id].expiration_time # NoValue
        /\ rows[id].expiration_time < t
        /\ rows[id].video_path # NoPath}

\* the ids of the records of a list
IdsOf(records) == {records[i].id : i \in 1..Len(records)}

\* the files of data/composedVideos without the file at path
Without(path) == [q \in DOMAIN composed \ {path} |-> composed[q]]

\* call k takes a step of its own
StepOf(k) == k \notin DOMAIN runs' \/ runs'[k] # runs[k]

\* C24: a sweep selects every job whose expiration_time is in the past and
\* whose video_path is set; for each of them in turn it tries to delete the
\* file and then clears video_path and expiration_time, whether the file was
\* deleted, could not be deleted or was not there, and goes on with the
\* remaining jobs (only a refused update of the record ends the sweep)
C24_SweepClearsEveryExpiredJob ==
    [][\A k \in DOMAIN runs :
          /\ (runs[k].pc = "selecting" /\ k \in DOMAIN runs'
                /\ runs'[k].pc = "cleaning") =>
                (/\ IdsOf(runs'[k].expiredRecords) = ExpiredIds(now)
                 /\ Len(runs'[k].expiredRecords) = Cardinality(ExpiredIds(now))
                 /\ \A i \in 1..Len(runs'[k].expiredRecords) :
                       runs'[k].expiredRecords[i].video_path
                          = rows[runs'[k].expiredRecords[i].id].video_path)
          /\ (runs[k].pc = "cleaning" /\ StepOf(k)) =>
                LET record == Head(runs[k].expiredRecords)
                    rest == Tail(runs[k].expiredRecords)
                IN  /\ composed' \in {composed, Without(record.video_path)}
                    /\ IF k \notin DOMAIN runs' /\ sched'.last.outcome = "caught"
                       THEN rows' = rows
                       ELSE /\ rows'[record.id].video_path = NoPath
                            /\ rows'[record.id].expiration_time = NoValue
                            /\ IF rest = <<>>
                               THEN /\ k \notin DOMAIN runs'
                                    /\ sched'.last.outcome = "completed"
                               ELSE /\ k \in DOMAIN runs'
                                    /\ runs'[k].pc = "cleaning"
                                    /\ runs'[k].expiredRecords = rest]_vars

\* two expired jobs with outputs of their own: the file of the first could
\* not be deleted, its record is cleared all the same, and the sweep is at
\* the second
C24_Witness ==
    /\ Len(jobs) = 2
    /\ jobs[1].outputPath # jobs[2].outputPath
    /\ jobs[1].outputPath \in DOMAIN composed
    /\ rows[1].status = "completed"
    /\ rows[1].video_path = NoPath
    /\ rows[1].expiration_time = NoValue
    /\ rows[2].video_path = jobs[2].outputPath
    /\ \E k \in DOMAIN runs :
          /\ runs[k].pc = "cleaning"
          /\ Len(runs[k].expiredRecords) = 1
          /\ runs[k].expiredRecords[1].id = 2
    /\ Cardinality(DOMAIN runs) = 1

\* the job was completed and the sweep has cleared its output
Reclaimed(id) ==
    /\ rows[id].status = "completed"
    /\ rows[id].video_path = NoPath
    /\ rows[id].expiration_time = NoValue

\* C25: the sweep is idempotent. A call that comes after a call that went
\* through (no other call under way) selects only jobs that were not yet
\* expired when that call selected, so with no job newly expired it selects
\* nothing; a call that selects nothing deletes no file and changes no
\* record; and a reclaimed job stays reclaimed and is never selected again
C25_SweepIdempotent ==
    [][/\ \A k \in DOMAIN runs :
            /\ (runs[k].pc = "selecting" /\ k \in DOMAIN runs'
                  /\ runs'[k].pc = "cleaning"
                  /\ runs[k].prev.outcome \in {"completed", "none_expired"}) =>
                  \A i \in 1..Len(runs'[k].expiredRecords) :
                      rows[runs'[k].expiredRecords[i].id].expiration_time
                         >= runs[k].prev.selectedAt
            /\ (runs[k].pc = "selecting" /\ k \in DOMAIN runs'
                  /\ runs'[k].pc = "cleaning") =>
                  \A i \in 1..Len(runs'[k].expiredRecords) :
                      ~Reclaimed(runs'[k].expiredRecords[i].id)
            /\ (runs[k].pc = "selecting" /\ k \notin DOMAIN runs') =>
                  (rows' = rows /\ composed' = composed)
       /\ \A id \in DOMAIN rows : Reclaimed(id) => rows'[id] = rows[id]]_vars

\* a sweep has reclaimed a job and returned, and the call of the next
\* interval, with no job newly expired, has returned with nothing selected
C25_Witness ==
    /\ \E id \in DOMAIN rows : Reclaimed(id) /\ jobs[id].outputPath \notin DOMAIN composed
    /\ \A id \in DOMAIN rows : rows[id].video_path = NoPath
    /\ sched.last = [outcome |-> "none_expired", selectedAt |-> MaxSweeps * CleanupIntervalMs]
    /\ DOMAIN runs = {}
    /\ now = MaxSweeps * CleanupIntervalMs

\* the job has its output recorded and its expiration_time is not yet past
Unexpired(id) ==
    /\ rows[id].video_path # NoPath
    /\ rows[id].expiration_time # NoValue
    /\ rows[id].expiration_time >= now

\* no step clears the video_path or the expiration_time of a job whose
\* expiration_time is not yet past: a job completed while a sweep is under
\* way keeps both through that sweep
UnexpiredRecordKept ==
    [][\A id \in DOMAIN rows : Unexpired(id) => rows'[id] = rows[id]]_vars

\* C26: under any interleaving of sweeps and request handlers, no step
\* deletes the artifact or clears the fields of a job whose expiration_time
\* is not yet past
C26_UnexpiredJobUntouched ==
    [][\A id \in DOMAIN rows :
          Unexpired(id) =>
              /\ rows'[id] = rows[id]
              /\ rows[id].video_path \in DOMAIN composed =>
                    rows[id].video_path \in DOMAIN composed']_vars

\* the artifact of a job whose expiration_time is not yet past is deleted by
\* no step, as long as no other job was given the same output path
UnexpiredArtifactKeptUnlessShared ==
    [][\A id \in DOMAIN rows :
          (/\ Unexpired(id)
           /\ rows[id].video_path \in DOMAIN composed
           /\ \A other \in 1..Len(jobs) :
                 other # id => jobs[other].outputPath # rows[id].video_path) =>
              rows[id].video_path \in DOMAIN composed']_vars

\* the job is completed, its expiration_time is past and its output is still
\* recorded, with the scheduler started
Reclaimable(id) ==
    /\ sched.started
    /\ id \in DOMAIN rows
    /\ rows[id].status = "completed"
    /\ rows[id].video_path # NoPath
    /\ rows[id].expiration_time # NoValue
    /\ rows[id].expiration_time < now

\* both fields of the job are cleared
FieldsCleared(id) ==
    /\ id \in DOMAIN rows
    /\ rows[id].video_path = NoPath
    /\ rows[id].expiration_time = NoValue

\* with the interval firing for good and the store succeeding in the end,
\* the fields of every completed job whose expiration_time is past are
\* cleared in the end
ExpiredFieldsEventuallyCleared ==
    \A id \in 1..MaxJobs : Reclaimable(id) ~> FieldsCleared(id)

\* C27: with the interval firing for good and the store succeeding in the
\* end, once the expiration_time of a completed job is past its video_path
\* and expiration_time are cleared in the end and its file is no longer
\* there
C27_ArtifactEventuallyReclaimed ==
    \A id \in 1..MaxJobs :
        Reclaimable(id) ~>
            (FieldsCleared(id) /\ jobs[id].outputPath \notin DOMAIN composed)

\* a call of the sweep failed and returned: nothing left the call, and the
\* scheduler is as it was started
FailureKept ==
    /\ sched.last.outcome # "fatal"
    /\ sched.sweeps > 0 => sched.started
    /\ (/\ sched.last.outcome = OutcomeOfError
        /\ now + CleanupIntervalMs <= MaxSweeps * CleanupIntervalMs
        /\ Cardinality(DOMAIN runs) < MaxActiveRuns) => ENABLED IntervalTick

\* C28: a failure inside a sweep (the table, the SELECT or an UPDATE) never
\* leaves the sweep and never stops the scheduler: the next tick of the
\* interval calls the sweep again; the step that fails changes no record, and
\* the call that follows a failed one selects every job that is expired with
\* a video_path, the ones the failed call left among them
C28_SweepFailureIsContained ==
    /\ [](FailureKept)
    /\ [][\A k \in DOMAIN runs :
            /\ (StepOf(k) /\ k \notin DOMAIN runs'
                  /\ sched'.last.outcome = OutcomeOfError
                  /\ sched'.last # sched.last) =>
                  (rows' = rows /\ sched'.started /\ sched'.sweeps = sched.sweeps)
            /\ (runs[k].pc = "selecting" /\ runs[k].prev.outcome = OutcomeOfError
                  /\ k \in DOMAIN runs' /\ runs'[k].pc = "cleaning") =>
                  IdsOf(runs'[k].expiredRecords) = ExpiredIds(now)
            /\ (runs[k].pc = "selecting" /\ runs[k].prev.outcome = OutcomeOfError
                  /\ k \notin DOMAIN runs'
                  /\ sched'.last.outcome = "none_expired") =>
                  ExpiredIds(now) = {}]_vars

\* a call failed and returned with a job still expired and recorded, the
\* interval fired again, and the call it started has that job in its
\* selection
C28_Witness ==
    \E k \in DOMAIN runs :
        /\ runs[k].pc = "cleaning"
        /\ runs[k].prev.outcome = OutcomeOfError
        /\ runs[k].prev.selectedAt < now
        /\ rows[Head(runs[k].expiredRecords).id].expiration_time
              < runs[k].prev.selectedAt
        /\ sched.ticks >= 2

\* the scheduler calls the sweep once when it is started and once per tick
\* of the interval
SweepPerTick ==
    /\ sched.started => sched.sweeps = sched.ticks + 1
    /\ ~sched.started => (sched.sweeps = 0 /\ sched.ticks = 0 /\ DOMAIN runs = {})

\* two calls of the sweep are under way with the same job in their selections
SweepsOverSameJob ==
    \E k \in DOMAIN runs, n \in DOMAIN runs :
        /\ k # n
        /\ runs[k].pc = "cleaning"
        /\ runs[n].pc = "cleaning"
        /\ IdsOf(runs[k].expiredRecords) \cap IdsOf(runs[n].expiredRecords) # {}

\* C29: the scheduler calls the sweep once when started and once per tick,
\* and at any time no sweep or a single sweep is under way: a tick that
\* fires during a sweep never leaves two sweeps under way together
C29_SingleSweepAtATime ==
    /\ SweepPerTick
    /\ Cardinality(DOMAIN runs) <= 1

\* the record after the step is the record before it but for video_path and
\* expiration_time, both cleared
OnlyArtifactFieldsCleared(id) ==
    /\ rows'[id].status = rows[id].status
    /\ rows'[id].steps = rows[id].steps
    /\ rows'[id].folder_path = rows[id].folder_path
    /\ rows'[id].video_path = NoPath
    /\ rows'[id].expiration_time = NoValue

\* C30: a sweep deletes no record and changes only video_path and
\* expiration_time of the jobs it reclaims: a step of a call of the sweep
\* leaves the set of records as it is, changes at most the record at the
\* head of the call's selection, and that one only in these two fields
C30_SweepFrame ==
    [][\A k \in DOMAIN runs :
          StepOf(k) =>
              /\ DOMAIN rows' = DOMAIN rows
              /\ \A id \in DOMAIN rows :
                    rows'[id] # rows[id] =>
                        /\ runs[k].pc = "cleaning"
                        /\ id = Head(runs[k].expiredRecords).id
                        /\ OnlyArtifactFieldsCleared(id)]_vars

\* a call of the sweep has returned with the first job reclaimed, its
\* status, steps and folder as the request left them, while the second job,
\* which that call did not select, still has its output recorded
C30_Witness ==
    /\ Len(jobs) = 2
    /\ Reclaimed(1)
    /\ HasStep(rows[1].steps, "video_composed")
    /\ rows[1].folder_path = FolderPath(1)
    /\ rows[2].status = "completed"
    /\ rows[2].video_path # NoPath
    /\ rows[2].expiration_time >= now
    /\ sched.last.outcome = "completed"
    /\ DOMAIN runs = {}

\* the table is created by one createTable at most
TableCreatedOnce ==
    /\ Cardinality({c \in InitCallers : initers[c].created}) <= 1
    /\ tableExists <=> (\E c \in InitCallers : initers[c].created)

\* a call made while the table is there leaves the table as it is and
\* returns, unless the store refuses the hasTable itself
InitKeepsTable ==
    [][\A c \in InitCallers :
          (tableExists /\ initers[c].pc = "called" /\ initers'[c] # initers[c]) =>
              /\ tableExists'
              /\ initers'[c].pc = "returned" \/ initers'[c].error = MsgDb
              /\ initers'[c].created = initers[c].created]_vars

\* C31: the lazy initialisation of the table is safe under concurrent first
\* callers: with calls running together while the table is absent the table
\* is created once and no caller fails because of the other
C31_LazyInitSafeUnderRace ==
    /\ TableCreatedOnce
    /\ \A c \in InitCallers :
          initers[c].pc = "thrown" => initers[c].error = MsgDb

\* the output file of invocation i, where it is
OutputOf(i) ==
    IF procs[i].kind = "trimconcat"
    THEN IF procs[i].out \in DOMAIN composed THEN composed[procs[i].out] ELSE NoPath
    ELSE IF Exists(procs[i].out) THEN files[procs[i].out] ELSE NoPath

\* no partial output is sent to a caller or recorded as the video_path of a
\* job
NoPartialSurfaced ==
    /\ \A k \in 1..Len(responses) :
          responses[k].status = 200 => responses[k].body # PartialContent
    /\ \A id \in DOMAIN rows :
          (rows[id].video_path # NoPath /\ rows[id].video_path \in DOMAIN composed) =>
              composed[rows[id].video_path] # PartialContent
    /\ \A k \in 1..Len(segmentFiles) :
          Exists(segmentFiles[k]) => files[segmentFiles[k]] # PartialContent

\* C32: once an engine invocation has concluded (its promise is settled),
\* its output file is complete or is not there: a failed or timed-out
\* invocation leaves no partial output file, and no such file is sent to a
\* caller or recorded as the video_path of a job
C32_NoPartialOutput ==
    /\ \A i \in 1..Len(procs) :
          procs[i].promise # "pending" => OutputOf(i) # PartialContent
    /\ NoPartialSurfaced

\* a composition failed with the first part of its output written, the
\* request is answered, and the file is still in data/composedVideos
PartialComposedLeft ==
    /\ variant = "compose"
    /\ pc = "done"
    /\ Len(procs) = 1
    /\ procs[1].promise = "rejected_error"
    /\ OutputOf(1) = PartialContent

\* no step of the compose handler removes a folder under data/composeVideo
FolderNeverRemoved ==
    [][folders \subseteq folders']_vars

\* C33: in the compose flow the working directory created for the job is
\* removed when the request concludes, on success and on every failure path
C33_WorkDirRemovedAtEnd ==
    (variant = "compose" /\ pc = "done") => FolderPath(requestId) \notin folders

\* any two compose requests have records of their own with folders of their
\* own
DistinctIdsAndFolders ==
    /\ DOMAIN rows = DOMAIN jobs
    /\ \A j \in DOMAIN jobs, k \in DOMAIN jobs :
          j # k => rows[j].folder_path # rows[k].folder_path

\* the record of the first job names a file that holds the output of the
\* second
ArtifactOverwritten ==
    /\ Len(jobs) = 2
    /\ rows[1].status = "completed"
    /\ rows[1].video_path \in DOMAIN composed
    /\ composed[rows[1].video_path] = Artifact(2)

\* C34: any two compose requests have distinct job ids, distinct working
\* directories and distinct output paths, so that no request writes over the
\* output of another
C34_RequestsShareNoPath ==
    /\ DistinctIdsAndFolders
    /\ \A j \in DOMAIN jobs, k \in DOMAIN jobs :
          j # k => jobs[j].outputPath # jobs[k].outputPath

\* the engine invocations of the request that have not ended
InFlight == {i \in 1..Len(procs) : procs[i].state = "running"}

\* C35: within one sequential-compile request the segments are processed one
\* after the other in the sorted order: at most one engine invocation is in
\* flight, the loop moves one segment at a time, the overlay awaited is the
\* one of the segment under the cursor, and an invocation is launched only
\* when every earlier one has ended and its promise is resolved
C35_SegmentsSequential ==
    /\ []((variant # "compose") =>
             (/\ Cardinality(InFlight) <= 1
              /\ (pc = "await_overlay") =>
                    (/\ data[cursor].type = "tts"
                     /\ Len(procs) = Len(TtsIndices(data, cursor))
                     /\ procs[Len(procs)].audio = AudioFile(uuidCount))))
    /\ [][/\ cursor' \in {cursor, cursor + 1}
          /\ (Len(procs') > Len(procs)) =>
                (/\ Len(procs') = Len(procs) + 1
                 /\ \A i \in 1..Len(procs) :
                       procs[i].state = "ended" /\ procs[i].promise = "resolved")]_vars

\* the second narration segment is being overlaid after a video segment and
\* a first narration segment whose overlay has ended
C35_Witness ==
    /\ Current
    /\ pc = "await_overlay"
    /\ cursor = 3
    /\ Len(procs) = 2
    /\ procs[1].state = "ended"
    /\ procs[2].state = "running"
    /\ data[1].type = "video"

\* the entry of the asset table with this id, if there is one
AssetsWithId(id) == {k \in 1..Len(AssetTable) : AssetTable[k].id = id}

\* the item gives a clip: its asset exists, is a video or an audio, and has
\* a source URL
GivesClip(item) ==
    \E k \in AssetsWithId(item.assetId) :
        AssetTable[k].type \in {"video", "audio"} /\ AssetTable[k].url # ""

\* the indices of the items of tl that give a clip
ClipItems(tl) == {i \in 1..Len(tl) : GivesClip(tl[i])}

\* the place of item i among the clips: after the items that start earlier
\* and after the earlier items that start at the same time
PlaceOf(tl, i) ==
    1 + Cardinality({j \in ClipItems(tl) :
                        \/ tl[j].startTime < tl[i].startTime
                        \/ tl[j].startTime = tl[i].startTime /\ j < i})

\* the clip c is the clip of the asset of the item: its URL, its startTrim
\* (0 when it has none) and its duration, in seconds
IsClipOf(c, item) ==
    \E k \in AssetsWithId(item.assetId) :
        /\ c.src = AssetTable[k].url
        /\ c.start.whole * 1000 + c.start.frac =
              (IF AssetTable[k].startTrim = NoValue THEN 0 ELSE AssetTable[k].startTrim)
        /\ c.start.frac \in 0..999
        /\ c.duration.whole * 1000 + c.duration.frac = AssetTable[k].duration
        /\ c.duration.frac \in 0..999

\* C36: flattening a timeline against the asset table gives one clip per
\* item whose asset exists, is a video or an audio and has a source URL, in
\* ascending startTime of the items with ties in the original order, each
\* with the asset's startTrim (0 by default) and duration in seconds; every
\* other item is skipped, and the caller's timeline is not reordered
C36_FlattenTimeline ==
    (pc = "flattened") =>
        /\ Len(clips) = Cardinality(ClipItems(reqData))
        /\ \A i \in ClipItems(reqData) :
              IsClipOf(clips[PlaceOf(reqData, i)], reqData[i])
        /\ timeline = reqData

\* the timeline [a1 at 1, v1 at 1, v1 at 0]: the video submitted last starts
\* first, and the audio and the video that start together keep their order
C36_Witness ==
    /\ pc = "flattened"
    /\ reqData = << [assetId |-> "a1", startTime |-> 1],
                    [assetId |-> "v1", startTime |-> 1],
                    [assetId |-> "v1", startTime |-> 0] >>
    /\ Len(clips) = 3
    /\ clips[2].src = "u2"
    /\ clips[3].start = [whole |-> 1, frac |-> 500]

\* the entries of the filter graph that write the label of stream s of clip
\* number i (counted from 0)
WritersOf(s, i) ==
    {k \in 1..Len(command.filter) :
        command.filter[k].to = <<[label |-> s, index |-> i]>>}

\* the one entry that writes label s<i> trims stream s of input i to the
\* start and the duration of the clip and resets the timestamps
TrimsClip(s, i, clip) ==
    /\ Cardinality(WritersOf(s, i)) = 1
    /\ \A k \in WritersOf(s, i) :
          /\ command.filter[k].name = (IF s = "v" THEN "trim" ELSE "atrim")
          /\ command.filter[k].from = [input |-> i, stream |-> s]
          /\ command.filter[k].start = clip.start
          /\ command.filter[k].duration = clip.duration
          /\ command.filter[k].then =
                (IF s = "v" THEN "setpts=PTS-STARTPTS" ELSE "asetpts=PTS-STARTPTS")
          /\ k < Len(command.filter)

\* the entries of the filter graph that are a concat
ConcatEntries == {k \in 1..Len(command.filter) : command.filter[k].name = "concat"}

\* how often the concat entry k reads the label s<i>
ReadsOf(k, s, i) ==
    Cardinality({p \in 1..Len(command.filter[k].labels) :
                    command.filter[k].labels[p] = [label |-> s, index |-> i]})

\* C37: for N >= 1 clips the filter graph has, for every clip index i in
\* 0..N-1, one video trim and one audio trim of input i to the clip's start
\* and duration with the timestamps reset, labelled v<i> and a<i>, then one
\* concat with n = N that reads every v<i> and a<i> once and gives one video
\* and audio pair; the inputs are added in the order of the clips
C37_FilterGraph ==
    (pc = "built") =>
        LET N == Len(clips)
        IN  /\ N >= 1
            /\ Len(command.inputs) = N
            /\ \A i \in 1..N : command.inputs[i] = clips[i].src
            /\ Len(command.filter) = 2 * N + 1
            /\ \A i \in 1..N : /\ TrimsClip("v", i - 1, clips[i])
                               /\ TrimsClip("a", i - 1, clips[i])
            /\ ConcatEntries = {2 * N + 1}
            /\ \A k \in ConcatEntries :
                  /\ command.filter[k].n = N
                  /\ command.filter[k].v = 1
                  /\ command.filter[k].a = 1
                  /\ Len(command.filter[k].labels) = 2 * N
                  /\ \A i \in 0..(N - 1) : /\ ReadsOf(k, "v", i) = 1
                                           /\ ReadsOf(k, "a", i) = 1
                  /\ command.filter[k].to =
                        <<[label |-> "outv", index |-> NoValue],
                          [label |-> "outa", index |-> NoValue]>>
            /\ command.maps = <<"outv", "outa">>

\* the command for three clips, the first two of different assets
C37_Witness ==
    /\ pc = "built"
    /\ Len(clips) = 3
    /\ clips[1].src = "u2"
    /\ clips[2].src = "u1"
    /\ Len(command.filter) = 7

\* the concat reads its labels clip by clip: v<0>, a<0>, v<1>, a<1>, ...
ConcatReadsClipByClip ==
    (pc = "built") =>
        \A k \in ConcatEntries :
            \A p \in 1..Len(command.filter[k].labels) :
                command.filter[k].labels[p] =
                    [label |-> IF p % 2 = 1 THEN "v" ELSE "a", index |-> (p - 1) \div 2]

\* the compose request was answered 200 and every write to its record went
\* through on the log as it was: the log has its four entries
NothingFailed ==
    /\ variant = "compose"
    /\ pc = "done"
    /\ LastResponse.status = 200
    /\ requestId \in DOMAIN rows
    /\ Len(rows[requestId].steps) = 4

\* C38: for a compose request in which no step fails, the final step log is
\* record_creation_success, transform_clips_success, compose_video_success,
\* video_composed in that order, the status is completed, the video_path is
\* the path returned to the caller, and the expiration_time is one hour after
\* the completion
C38_HappyPathRecord ==
    NothingFailed =>
        /\ rows[requestId].steps = <<"record_creation_success", "transform_clips_success",
                                     "compose_video_success", "video_composed">>
        /\ rows[requestId].status = "completed"
        /\ rows[requestId].video_path = LastResponse.body.outputPath
        /\ rows[requestId].video_path = procs[1].out
        /\ rows[requestId].expiration_time = now + ExpirationMs
        /\ Len(responses) = 1

\* a composition that took one tick of the clock went through every step
C38_Witness ==
    /\ NothingFailed
    /\ now > 0
    /\ rows[requestId].status = "completed"
    /\ rows[requestId].video_path \in DOMAIN composed

\* the request has left its handler
HandlerLeft == pc = "done"

\* the paths on which a request is answered
AnsweredOk == Len(responses) = 1 /\ LastResponse.status = 200
AnsweredRefused == Len(responses) = 1 /\ LastResponse.status = 400
AnsweredError == Len(responses) = 1 /\ LastResponse.status = 500

\* C39: every request to the sequential-compile handler and to the compose
\* handler is answered exactly once on every path: there is never a second
\* response, a response once sent stays as it is, and a request that has
\* left its handler has its one response
C39_ExactlyOneResponse ==
    /\ [](variant \in {"celebrate", "compose"} =>
            /\ Len(responses) <= 1
            /\ (HandlerLeft => Len(responses) = 1)
            /\ (pc = "finally" => Len(responses) = 1))
    /\ [][(Len(responses) = 1) => (responses' = responses)]_vars

\* a compose request without clips whose update to failed was refused, and
\* whose update in the general catch was refused too, has the one answer of
\* the general catch
C39_Witness ==
    /\ variant = "compose"
    /\ HandlerLeft
    /\ AnsweredRefused
    /\ NoClips(clips)
    /\ requestId \in DOMAIN rows
    /\ rows[requestId].status = "in_progress"
    /\ error = MsgDb
    /\ LastResponse.body = ComposeError(MsgDb)

\* the promise of invocation i is settled
Decided(i) == procs[i].promise # "pending"

\* this step is an engine event or a timer callback of invocation i
EngineReports(i) == i \in DOMAIN procs' /\ procs'[i].state # procs[i].state
TimerRuns(i) == \E t \in timers : t.inv = i /\ t \notin timers'

\* this step decides invocation i by the event that occurs in it
DecidedBy(i) ==
    /\ procs'[i].state = "ended" /\ procs[i].state # "ended"
           => procs'[i].promise = "resolved"
    /\ procs'[i].state = "errored" /\ procs[i].state # "errored"
           => procs'[i].promise = "rejected_error"
    /\ TimerRuns(i) => procs'[i].promise = "rejected_timeout"

\* what the request has produced: its answer, its list of outputs and its
\* place in the handler
ResultOfRequest == <<responses, segmentFiles, cursor, pc, error>>

\* C40: the outcome of an engine invocation is decided exactly once, by the
\* first of completion, error and timeout: the first event settles the
\* promise with its own outcome, and an event of an invocation already
\* decided (a completion or error after the timeout, the timer after the
\* completion) changes neither the outcome nor the request's result nor the
\* list of outputs
C40_OutcomeDecidedOnce ==
    [][\A i \in DOMAIN procs :
          /\ i \in DOMAIN procs'
          /\ Decided(i) => procs'[i].promise = procs[i].promise
          /\ Decided(i) /\ (EngineReports(i) \/ TimerRuns(i))
                => UNCHANGED ResultOfRequest
          /\ ~Decided(i) /\ (EngineReports(i) \/ TimerRuns(i)) => DecidedBy(i)]_vars

\* the first overlay completed and its timer ran afterwards; the second
\* timed out and its completion arrived afterwards
C40_Witness ==
    /\ variant = "celebrate"
    /\ \E i \in DOMAIN procs :
          /\ procs[i].promise = "resolved"
          /\ procs[i].out \in {segmentFiles[k] : k \in DOMAIN segmentFiles}
          /\ ~ \E t \in timers : t.inv = i
    /\ \E j \in DOMAIN procs :
          /\ procs[j].promise = "rejected_timeout"
          /\ procs[j].state = "ended"

====
